---- MODULE Spec2Model ----
(***************************************************************************)
(* A model of the spec2code-naive orchestration engine: the pipeline       *)
(* driver (core/orchestrator.py), the artifact store, the audit gates and  *)
(* the collaboration event log.                                            *)
(*                                                                         *)
(* Numbers that are floats in the source (confidence scores, thresholds)   *)
(* are kept in tenths: 1.0 is 10, 0.5 is 5, 0.3 is 3.                      *)
(* Text is abstracted to the set of tokens (placeholder markers, stable    *)
(* ids) that occur in it.                                                  *)
(***************************************************************************)
EXTENDS Integers, Sequences, FiniteSets, TLC

VARIABLES
    pipeline_config,      \* Orchestrator.pipeline_config.agents: <<[name, inputs]>>
    agent_configs,        \* agent names whose agent.yaml / prompts.yaml load
    audit_config,         \* what ConfigLoader.get_audit_config() returns, or what it raises
    input_data,           \* execute_pipeline(input_data)
    store_mode,           \* "none": no artifact_store or no run_id; "enabled": a persisting store
    has_log,              \* collaboration_event_log and run_id are both given
    faults_enabled,       \* whether CollaborationEventLog.emit may raise in this run
    pc,                   \* position inside Orchestrator.__init__ / execute_pipeline
    step_index,           \* the loop variable i of the agent loop (1-based)
    pipeline_agents,      \* pipeline_data["agents"]: name -> output
    artifacts_manifest,   \* artifacts_manifest list
    sufficiency_assessment,
    artifacts,            \* runs/<run_id>/artifacts/: kind -> artifact envelope
    audit_results_file,   \* runs/<run_id>/audits/audit_results.json
    event_log,            \* events read back from collaboration_events.jsonl
    uuid_counter,         \* number of uuid4() draws so far
    trace,                \* history: agent invocations, writes and emit calls in order
    outcome,              \* "running" | "returned" | the exception that left the call
    result,               \* the dict execute_pipeline returned
    script,               \* agent behaviours to replay (empty: free)
    baseline,             \* observables of the reference run (pair specification)
    events_file,          \* collaboration_events.jsonl as the operating system holds it
    write_buffer,         \* text written to the open file object and not flushed yet
    log_pc,               \* position inside CollaborationEventLog.emit
    pending_event,        \* the event the running emit was called with
    emitted,              \* the events of the emit calls that have returned, in order
    events_read,          \* what the last read_all() returned
    crashed_at,           \* where the process was when it crashed ("none": it runs)
    runs_directory,       \* ArtifactStore.runs_directory: run id -> the run's directory
    create_artifacts,     \* ArtifactStore.create_artifacts
    issued,               \* the run ids generate_run_id has returned, in order
    written,              \* <<run id, kind>> -> the artifacts the write_artifact calls that
                          \* returned were given, in order, since the file was last spoilt
    store_result,         \* what the last call on the store returned or raised
    store_calls,          \* number of calls made on the store
    call_args,            \* the arguments of the calls on a pure function, in order
    call_result           \* what the calls made so far returned, in order

orch_vars == <<pipeline_config, agent_configs, audit_config, input_data, store_mode,
               has_log, faults_enabled, pc, step_index, pipeline_agents,
               artifacts_manifest, sufficiency_assessment, artifacts,
               audit_results_file, event_log, uuid_counter, trace,
               outcome, result, script, baseline,
               runs_directory, create_artifacts, issued, written, store_result,
               store_calls, call_args, call_result>>

store_vars == <<runs_directory, create_artifacts, issued, written, store_result,
                store_calls>>

run_vars == <<pipeline_config, agent_configs, audit_config, input_data, store_mode,
              has_log, faults_enabled, pc, step_index, pipeline_agents,
              artifacts_manifest, sufficiency_assessment, artifacts,
              audit_results_file, event_log, uuid_counter, trace,
              outcome, result, script, baseline, call_args, call_result>>

call_vars == <<call_args, call_result>>

log_vars == <<events_file, write_buffer, log_pc, pending_event, emitted, events_read,
              crashed_at>>

vars == <<orch_vars, log_vars>>

(***************************************************************************)
(* Bounds of the model.                                                    *)
(***************************************************************************)
MaxSteps == 2
MaxEvents == 2
MaxRuns == 2
MaxStoreCalls == 5
MaxKeys == 2
MaxRetries == 3
MaxLookups == 2
MaxEntries == 2

(***************************************************************************)
(* Program constants.                                                      *)
(***************************************************************************)
FullConfidence == 10
SizePenalty == 5
MarkerPenalty == 3
DefaultMinInputSize == 120
RateLimitStatus == 429

None == "None"
RunId == "run-1"

EmptyMap == [x \in {} |-> None]

Put(f, k, v) == [x \in (DOMAIN f) \cup {k} |-> IF x = k THEN v ELSE f[x]]

Min(a, b) == IF a < b THEN a ELSE b
Max(a, b) == IF a > b THEN a ELSE b

(***************************************************************************)
(* Configuration: the pipeline is a sequence of steps [name, inputs].      *)
(* The bounded configurations take their step names in a fixed order and   *)
(* let every step choose what it declares as input sources.                *)
(***************************************************************************)
RoleOrder == <<"product_owner", "system_analyst", "developer", "plan_maker">>

SourceChoices == {"pipeline_input", "previous", "later", "both"}

\* The declared `inputs` list of step k under a source choice.
InputsOf(choice, k) ==
    CASE choice = "pipeline_input" -> <<"pipeline_input">>
      [] choice = "previous" -> IF k > 1 THEN <<RoleOrder[k - 1]>> ELSE <<"pipeline_input">>
      [] choice = "later" -> <<RoleOrder[k + 1]>>
      [] OTHER -> IF k > 1 THEN <<"pipeline_input", RoleOrder[k - 1]>>
                           ELSE <<"pipeline_input">>

PipelineConfigs ==
    UNION { { [k \in 1..n |-> [name |-> RoleOrder[k], inputs |-> InputsOf(c[k], k)]] :
              c \in [1..n -> SourceChoices] } : n \in 0..MaxSteps }

StepNames(config) == { config[k].name : k \in 1..Len(config) }

\* AuditConfig: thresholds in tenths; 0.6 is the default, 0.9 the value of the stop test.
AuditConfigs ==
    [min_confidence_to_proceed : {6, 9},
     min_input_size_for_sufficiency : {DefaultMinInputSize},
     insufficient_markers : {{"TBD", "TODO"}}]

\* Pipeline inputs: the tokens occurring in `content` and the declared `size`.
PipelineInputs == [content : {{}, {"TBD"}}, size : {9, 200}]

AGENT_ARTIFACT_MAP(agent_name) ==
    CASE agent_name = "product_owner" -> "ProblemBrief"
      [] agent_name = "business_analyst" -> "BusinessRequirements"
      [] agent_name = "ba_lead" -> "NonFunctionalRequirements"
      [] agent_name = "solution_architect" -> "C4Model"
      [] agent_name = "system_analyst" -> "ImplementableSpec"
      [] agent_name = "developer" -> "ImplementationDesign"
      [] agent_name = "senior_developer" -> "DesignReview"
      [] agent_name = "security_reviewer" -> "ThreatModel"
      [] agent_name = "qa_engineer" -> "TestPlan"
      [] agent_name = "plan_maker" -> "ImplementationDesign"
      [] agent_name = "plan_critique_generator" -> "DesignReview"
      [] agent_name = "plan_critique_comparator" -> "CodeReview"
      [] OTHER -> "BusinessRequirements"

(***************************************************************************)
(* Audit engine (agentic/audits): pure functions over artifact contents.   *)
(***************************************************************************)
\* The prefix of a stable id token, None for any other token.
IdPrefix(token) ==
    CASE token = "REQ-0001" -> "REQ"
      [] token = "REQ-0002" -> "REQ"
      [] token = "OBJ-0001" -> "OBJ"
      [] token = "ADR-0001" -> "ADR"
      [] token = "DES-0001" -> "DES"
      [] token = "TASK-0001" -> "TASK"
      [] token = "TEST-0001" -> "TEST"
      [] OTHER -> None

\* The tokens of all leaf strings of a content payload.
walk_strings(content) ==
    IF "agent_response" \in DOMAIN content THEN content.agent_response
    ELSE IF "blocking_gaps" \in DOMAIN content
         THEN UNION { content.blocking_gaps[g].markers : g \in 1..Len(content.blocking_gaps) }
    ELSE IF "rows" \in DOMAIN content
         THEN content.rows \cup content.columns
    ELSE {}

\* artifacts.get(kind, {}) followed by a walk over the leaf strings.
TokensOfKind(contents, kind) ==
    IF kind \in DOMAIN contents THEN walk_strings(contents[kind]) ELSE {}

extract_stable_ids(tokens, id_prefix) == { t \in tokens : IdPrefix(t) = id_prefix }

\* str.upper on the tokens that are not upper case already.
upper(token) ==
    CASE token = "tbd" -> "TBD"
      [] token = "Todo" -> "TODO"
      [] token = "to_be_defined" -> "TO_BE_DEFINED"
      [] token = "mastodon" -> "MASTODON"
      [] token = "3nf" -> "3NF"
      [] token = "2nf" -> "2NF"
      [] OTHER -> token

\* An evaluation that looks for the markers as they are spelt in the configuration.
run_sufficiency_exact_case(pipeline_input, min_content_size, insufficient_markers) ==
    LET short == pipeline_input.size < min_content_size
        found_markers == insufficient_markers \cap pipeline_input.content
        c1 == IF short THEN FullConfidence - SizePenalty ELSE FullConfidence
        gaps1 == IF short THEN <<[area |-> "scope", markers |-> {}]>> ELSE <<>>
        c2 == IF found_markers # {} THEN c1 - MarkerPenalty ELSE c1
        gaps2 == IF found_markers # {}
                 THEN Append(gaps1, [area |-> "unknowns", markers |-> found_markers])
                 ELSE gaps1
    IN  [confidence_score |-> Max(0, Min(FullConfidence, c2)), blocking_gaps |-> gaps2]

run_sufficiency_evaluation(pipeline_input, min_content_size, insufficient_markers) ==
    LET short == pipeline_input.size < min_content_size
        found_markers == { marker \in insufficient_markers :
                             \E token \in pipeline_input.content :
                                upper(marker) = upper(token) }
        c1 == IF short THEN FullConfidence - SizePenalty ELSE FullConfidence
        gaps1 == IF short THEN <<[area |-> "scope", markers |-> {}]>> ELSE <<>>
        c2 == IF found_markers # {} THEN c1 - MarkerPenalty ELSE c1
        gaps2 == IF found_markers # {}
                 THEN Append(gaps1, [area |-> "unknowns", markers |-> found_markers])
                 ELSE gaps1
    IN  [confidence_score |-> Max(0, Min(FullConfidence, c2)), blocking_gaps |-> gaps2]

\* A check that asks for objective ids only.
check_traceability_objectives_only(contents) ==
    LET objective_ids == extract_stable_ids(TokensOfKind(contents, "ProblemBrief"), "OBJ")
        requirement_ids == extract_stable_ids(TokensOfKind(contents, "ImplementableSpec"), "REQ")
    IN  IF requirement_ids # {} /\ objective_ids = {}
        THEN {"Requirements exist but no objective IDs were found for traceability."}
        ELSE {}

check_traceability(contents) ==
    LET objective_ids == extract_stable_ids(TokensOfKind(contents, "ProblemBrief"), "OBJ")
        requirement_ids == extract_stable_ids(TokensOfKind(contents, "ImplementableSpec"), "REQ")
        task_links == extract_stable_ids(TokensOfKind(contents, "WorkBreakdown"), "REQ")
    IN  (IF requirement_ids # {} /\ objective_ids = {}
         THEN {"Requirements exist but no objective IDs were found for traceability."}
         ELSE {})
        \cup
        (IF requirement_ids # {} /\ task_links = {}
         THEN {"Requirements exist but no task-to-requirement trace links were found."}
         ELSE {})

UnresolvedMarkers == {"TBD", "TODO", "TO_BE_DEFINED"}

check_completeness(content) ==
    { marker \in UnresolvedMarkers : \E text \in walk_strings(content) : upper(text) = marker }

(***************************************************************************)
(* check_completeness on payloads.  A payload is <<"str", text>>, a text   *)
(* being the sequence of its words, <<"num", <<>>>>, <<"list", items>> or  *)
(* <<"dict", items>> with items the sequence of <<key, payload>>.          *)
(***************************************************************************)
StrLeaf(text) == <<"str", text>>

NumLeaf == <<"num", <<>>>>

ListOf(items) == <<"list", items>>

DictOf(items) == <<"dict", items>>

\* marker in word, for upper-case words: the marker is a substring of the word.
substring_of(marker, word) ==
    \/ marker = word
    \/ marker = "TODO" /\ word = "MASTODON"

RECURSIVE walk_leaf_strings(_)
RECURSIVE walk_items(_, _)

\* The leaf strings of the payloads items[i], items[i + 1], ... in order.
walk_items(items, i) ==
    IF i > Len(items) THEN <<>>
    ELSE walk_leaf_strings(items[i]) \o walk_items(items, i + 1)

\* _walk_strings: a string is a leaf, the values of a dict and the items of a
\* list are walked, anything else holds no string.
walk_leaf_strings(payload) ==
    CASE payload[1] = "str" -> <<payload[2]>>
      [] payload[1] = "list" -> walk_items(payload[2], 1)
      [] payload[1] = "dict" ->
            walk_items([i \in 1..Len(payload[2]) |-> payload[2][i][2]], 1)
      [] OTHER -> <<>>

UnresolvedMarkerOrder == <<"TBD", "TODO", "TO_BE_DEFINED">>

\* The places of the marker in the leaf strings: <<string, word>>.
marker_occurrences(strings, marker) ==
    UNION { { <<i, k>> : k \in { k \in 1..Len(strings[i]) :
                                    substring_of(marker, upper(strings[i][k])) } } :
            i \in 1..Len(strings) }

RECURSIVE repeat_error(_, _)
repeat_error(marker, n) == IF n = 0 THEN <<>> ELSE <<marker>> \o repeat_error(marker, n - 1)

\* A check that reports a marker once for each place it occurs in.
check_completeness_per_occurrence(payload) ==
    LET strings == walk_leaf_strings(payload)
        errors_of(k) == repeat_error(UnresolvedMarkerOrder[k],
                            Cardinality(marker_occurrences(strings, UnresolvedMarkerOrder[k])))
    IN  errors_of(1) \o errors_of(2) \o errors_of(3)

\* check_completeness: the markers found, each once, in the order of the tuple.
check_completeness_payload(payload) ==
    LET strings == walk_leaf_strings(payload)
        found(marker) == marker_occurrences(strings, marker) # {}
    IN  SelectSeq(UnresolvedMarkerOrder, found)

check_consistency(contents) ==
    LET nfr_text == TokensOfKind(contents, "NonFunctionalRequirements")
        adr_text == TokensOfKind(contents, "ArchitectureDecisionRecordSet")
        contradictions == {<<"eventual consistency", "strong consistency">>,
                           <<"single region only", "multi-region required">>}
    IN  { pair \in contradictions :
            pair[1] \in nfr_text /\ pair[2] \in nfr_text /\ "tradeoff" \notin adr_text }

\* An audit that reports the completeness errors per artifact only.
run_deterministic_audit_cross_checks_only(contents) ==
    LET traceability_errors == check_traceability(contents)
        consistency_errors == check_consistency(contents)
        per_artifact_completeness ==
            { e \in (DOMAIN contents) \X UnresolvedMarkers :
                e[2] \in check_completeness(contents[e[1]]) }
        errors == { <<"traceability", "", e>> : e \in traceability_errors }
                  \cup { <<"consistency", e[1], e[2]>> : e \in consistency_errors }
    IN  [passed |-> errors = {},
         errors |-> errors,
         results |-> [traceability |-> traceability_errors,
                      consistency |-> consistency_errors,
                      completeness |-> per_artifact_completeness]]

run_deterministic_audit(contents) ==
    LET traceability_errors == check_traceability(contents)
        consistency_errors == check_consistency(contents)
        per_artifact_completeness ==
            { e \in (DOMAIN contents) \X UnresolvedMarkers :
                e[2] \in check_completeness(contents[e[1]]) }
        errors == { <<"traceability", "", e>> : e \in traceability_errors }
                  \cup { <<"consistency", e[1], e[2]>> : e \in consistency_errors }
                  \cup { <<"completeness", e[1], e[2]>> : e \in per_artifact_completeness }
    IN  [passed |-> errors = {},
         errors |-> errors,
         results |-> [traceability |-> traceability_errors,
                      consistency |-> consistency_errors,
                      completeness |-> per_artifact_completeness]]

\* DefaultSemanticEvaluator.evaluate: neutral pass with full confidence.
run_semantic_audit(contents, rubric) ==
    [confidence_score |-> FullConfidence,
     blocking_gaps |-> <<>>,
     evidence_refs |-> DOMAIN contents,
     rubric_ref |-> rubric]

ColumnPrefixes == {"OBJ", "ADR", "DES", "TASK", "TEST"}

\* json.dumps(content): the words of the leaf strings and of the keys.
serialized_text(content) ==
    walk_strings(content) \cup (IF "keys" \in DOMAIN content THEN content.keys ELSE {})

\* `stable_id in text`: the id is a substring of some word of the text.
occurs_in(stable_id, text) ==
    \E word \in text : \/ word = stable_id
                        \/ (stable_id = "REQ-0001" /\ word = "REQ-00012")

\* A matrix whose cells pair ids that occur anywhere in the run.
build_traceability_matrix_across_artifacts(contents) ==
    LET rows == extract_stable_ids(TokensOfKind(contents, "ImplementableSpec"), "REQ")
        columns == UNION { UNION { extract_stable_ids(walk_strings(contents[kind]), prefix) :
                                   kind \in DOMAIN contents } : prefix \in ColumnPrefixes }
        cells == { <<row, column>> \in rows \X columns :
                     /\ \E kind \in DOMAIN contents : occurs_in(row, serialized_text(contents[kind]))
                     /\ \E kind \in DOMAIN contents :
                           occurs_in(column, serialized_text(contents[kind])) }
        gaps == { [row_id |-> row, column_id |-> None, severity |-> "high"] :
                    row \in { r \in rows : \A column \in columns : <<r, column>> \notin cells } }
    IN  [rows |-> rows, columns |-> columns, cells |-> cells, gaps |-> gaps]

build_traceability_matrix(contents) ==
    LET rows == extract_stable_ids(TokensOfKind(contents, "ImplementableSpec"), "REQ")
        columns == UNION { UNION { extract_stable_ids(walk_strings(contents[kind]), prefix) :
                                   kind \in DOMAIN contents } : prefix \in ColumnPrefixes }
        cells == { <<row, column>> \in rows \X columns :
                     \E kind \in DOMAIN contents :
                        /\ occurs_in(row, serialized_text(contents[kind]))
                        /\ occurs_in(column, serialized_text(contents[kind])) }
        gaps == { [row_id |-> row, column_id |-> None, severity |-> "high"] :
                    row \in { r \in rows : \A column \in columns : <<r, column>> \notin cells } }
    IN  [rows |-> rows, columns |-> columns, cells |-> cells, gaps |-> gaps]

(***************************************************************************)
(* Artifact envelopes and the artifact store.                              *)
(***************************************************************************)
compute_content_hash(content) == <<"sha256", content>>

(***************************************************************************)
(* compute_content_hash on payloads.  A dict is the sequence of its        *)
(* <<key, value>> items in insertion order; a value is <<"atom", text>>,   *)
(* the JSON text of a number or a string, or <<"object", dict>>.  A text   *)
(* is the sequence of its tokens.  The digest is taken to be free of       *)
(* collisions: it is the text it was computed from.                        *)
(***************************************************************************)
\* The keys of the bounded payloads, in the order str comparison gives them.
JsonKeys == <<"a", "b", "c">>

NestedKeys == {JsonKeys[1], JsonKeys[2]}

key_rank(key) == CHOOSE i \in 1..Len(JsonKeys) : JsonKeys[i] = key

Atom(text) == <<"atom", text>>

Object(dict) == <<"object", dict>>

\* The number 1 and the string "1".
JsonAtoms == {Atom("1"), Atom("'1'")}

\* The dicts of at most n items with keys in keys and values in values.
Dicts(keys, values, n) ==
    UNION { { d \in [1..m -> keys \X values] :
                \A i, j \in 1..m : i # j => d[i][1] # d[j][1] } : m \in 0..n }

NestedDicts == Dicts(NestedKeys, {Atom("1")}, MaxKeys)

JsonValues == JsonAtoms \cup { Object(d) : d \in NestedDicts }

ContentPayloads == Dicts({ JsonKeys[i] : i \in 1..Len(JsonKeys) }, JsonValues, MaxKeys)

\* A json.dumps that writes the items in the order they were inserted.
items_as_inserted(dict, sort_keys) == dict

\* json.dumps(..., sort_keys=...): the items in the order they are written.
items_in_order(dict, sort_keys) ==
    IF sort_keys
    THEN [n \in 1..Len(dict) |->
            CHOOSE item \in { dict[i] : i \in 1..Len(dict) } :
                Cardinality({ i \in 1..Len(dict) :
                                key_rank(dict[i][1]) < key_rank(item[1]) }) = n - 1]
    ELSE dict

RECURSIVE join_members(_, _)
join_members(members, i) ==
    IF i > Len(members) THEN <<>>
    ELSE IF i = Len(members) THEN members[i]
    ELSE members[i] \o <<",">> \o join_members(members, i + 1)

\* separators=(",", ":"): an object is {"key":value,...} without spaces.
dumps_object(members) == <<"{">> \o join_members(members, 1) \o <<"}">>

dumps_nested(dict, sort_keys) ==
    LET items == items_in_order(dict, sort_keys)
    IN  dumps_object([i \in 1..Len(items) |-> <<items[i][1], ":", items[i][2][2]>>])

dumps_content(content, sort_keys) ==
    LET items == items_in_order(content, sort_keys)
    IN  dumps_object([i \in 1..Len(items) |->
            <<items[i][1], ":">> \o
            (IF items[i][2][1] = "atom"
             THEN <<items[i][2][2]>>
             ELSE dumps_nested(items[i][2][2], sort_keys))])

sha256_hexdigest(text) == text

\* compute_content_hash: "sha256:" and the digest of the canonical text.
compute_content_hash_text(content) ==
    <<"sha256:", sha256_hexdigest(dumps_content(content, TRUE))>>

\* The envelope fields that matter to the hash: identity, run and content.
HashedArtifact(artifact_id, run_id, content) ==
    [artifact_id |-> artifact_id, run_id |-> run_id, content |-> content,
     content_hash |-> compute_content_hash_text(content)]

\* The dicts that hold the items of dict inserted in another order.
insertion_orders(dict) ==
    { [i \in 1..Len(dict) |-> dict[order[i]]] : order \in Permutations(1..Len(dict)) }

value_orders(value) ==
    IF value[1] = "atom" THEN {value}
    ELSE { Object(d) : d \in insertion_orders(value[2]) }

\* The payloads that are the same content as content, at both levels.
content_orders(content) ==
    UNION { { [i \in 1..Len(d) |-> <<d[i][1], values[i]>>] :
                values \in { w \in [1..Len(d) -> JsonValues] :
                                \A i \in 1..Len(d) : w[i] \in value_orders(d[i][2]) } } :
            d \in insertion_orders(content) }

build_artifact(run_id, agent_name, agent_output, uuid) ==
    [artifact_type |-> AGENT_ARTIFACT_MAP(agent_name),
     run_id |-> run_id,
     created_by_role |-> agent_name,
     created_by_agent_instance_id |-> uuid,
     content |-> agent_output,
     content_hash |-> compute_content_hash(agent_output)]

build_system_artifact(run_id, artifact_type, content, uuid) ==
    [artifact_type |-> artifact_type,
     run_id |-> run_id,
     created_by_role |-> "orchestrator",
     created_by_agent_instance_id |-> uuid,
     content |-> content,
     content_hash |-> compute_content_hash(content)]

\* A store that returns the path without writing the file.
write_artifact_dropped(dir, artifact) == dir

\* ArtifactStore.write_artifact: artifacts/<kind>.json is overwritten.
write_artifact(dir, artifact) == Put(dir, artifact.artifact_type, artifact)

ArtifactPath(artifact) == <<"artifacts", artifact.artifact_type>>

append_manifest_entry(manifest, artifact) ==
    Append(manifest, [artifact_type |-> artifact.artifact_type,
                      file |-> ArtifactPath(artifact),
                      content_hash |-> artifact.content_hash])

\* A collection that leaves out the artifacts the orchestrator itself wrote.
collect_artifact_contents_of_agents(dir) ==
    [kind \in { k \in DOMAIN dir : dir[k].created_by_role # "orchestrator" } |->
        dir[kind].content]

\* _collect_artifact_contents / _load_artifact_contents: kind -> content.
collect_artifact_contents(dir) == [kind \in DOMAIN dir |-> dir[kind].content]

\* ArtifactStore.write_audit_results: audits/audit_results.json, last write wins.
write_audit_results(old_file, payload) == [exists |-> TRUE, payload |-> payload]

NoAuditFile ==
    [exists |-> FALSE,
     payload |-> [deterministic |-> [passed |-> TRUE, errors |-> {}],
                  semantic |-> [confidence_score |-> 0, blocking_gaps |-> <<>>],
                  sufficiency |-> [confidence_score |-> 0, blocking_gaps |-> <<>>],
                  traceability_matrix_ref |-> None]]


(***************************************************************************)
(* Collaboration events as the orchestrator emits them.                    *)
(***************************************************************************)
\* One entry of the history of observable operations.
Op(op, who, what, note, ok) == [op |-> op, who |-> who, what |-> what, note |-> note, ok |-> ok]

\* An emit helper that lets the exception of a failed emit escape.
emit_collaboration_event_propagating(es, actor, event_type, references, summary, raises) ==
    LET event == [event_id |-> es.uuid + 1,
                  timestamp |-> "utcnow+00:00",
                  run_id |-> RunId,
                  actor |-> actor,
                  event_type |-> event_type,
                  references |-> references,
                  content_ref |-> None,
                  summary |-> summary]
    IN  [log |-> IF raises THEN es.log ELSE Append(es.log, event),
         trace |-> Append(es.trace, Op("emit", actor, event_type, summary, ~raises)),
         uuid |-> es.uuid + 1,
         escaped |-> es.escaped \/ raises]

\* An emit helper that quotes the pipeline input in the summary of the event.
emit_collaboration_event_quoting_input(es, actor, event_type, references, summary, raises) ==
    LET quoted == IF input_data.content = {} THEN summary
                  ELSE CHOOSE token \in input_data.content : TRUE
        event == [event_id |-> es.uuid + 1,
                  timestamp |-> "utcnow+00:00",
                  run_id |-> RunId,
                  actor |-> actor,
                  event_type |-> event_type,
                  references |-> references,
                  content_ref |-> None,
                  summary |-> quoted]
    IN  [log |-> IF raises THEN es.log ELSE Append(es.log, event),
         trace |-> Append(es.trace, Op("emit", actor, event_type, quoted, ~raises)),
         uuid |-> es.uuid + 1,
         escaped |-> es.escaped]

\* Orchestrator._emit_collaboration_event on es = [log, trace, uuid, escaped]:
\* the event is built (one uuid4 draw) and appended; an emit that raises is
\* caught and logged, so no exception escapes to the caller (escaped stays as
\* it was).
emit_collaboration_event(es, actor, event_type, references, summary, raises) ==
    LET event == [event_id |-> es.uuid + 1,
                  timestamp |-> "utcnow+00:00",
                  run_id |-> RunId,
                  actor |-> actor,
                  event_type |-> event_type,
                  references |-> references,
                  content_ref |-> None,
                  summary |-> summary]
    IN  [log |-> IF raises THEN es.log ELSE Append(es.log, event),
         trace |-> Append(es.trace, Op("emit", actor, event_type, summary, ~raises)),
         uuid |-> es.uuid + 1,
         escaped |-> es.escaped]

EmitState == [log |-> event_log, trace |-> trace, uuid |-> uuid_counter, escaped |-> FALSE]

\* The emit faults a run may see.
FaultChoices == IF faults_enabled /\ has_log THEN BOOLEAN ELSE {FALSE}

SetEmitState(es) ==
    /\ event_log' = es.log
    /\ trace' = es.trace
    /\ uuid_counter' = es.uuid

\* The emit is skipped when no event log (or no run id) was passed.
EmitIf(cond, es, actor, event_type, references, summary, raises) ==
    IF cond THEN emit_collaboration_event(es, actor, event_type, references, summary, raises)
    ELSE es

\* Control after the emits of one block: an escaped exception reaches the
\* except clause of execute_pipeline (lines 431-434).
Then(es, next_pc, next_outcome) ==
    IF es.escaped
    THEN outcome' = "PipelineError" /\ pc' = "done"
    ELSE outcome' = next_outcome /\ pc' = next_pc

Traced(es, entry) == [es EXCEPT !.trace = Append(es.trace, entry)]
DrawUuid(es) == [es EXCEPT !.uuid = es.uuid + 1]

(***************************************************************************)
(* Agent execution.                                                        *)
(***************************************************************************)
\* What the model provider does in one Agent._execute_template call: it
\* answers with a text, or chain.invoke raises.
ResponseTexts == {{}, {"TBD"}, {"REQ-0001", "OBJ-0001"}}

AgentBehaviours == [kind : {"response"}, text : ResponseTexts]
                   \cup {[kind |-> "llm_error", text |-> {}]}

\* Agent._execute_template: the answer, or the fallback output when the
\* LangChain call raised (the exception is caught and not re-raised).
execute_template(behaviour) ==
    IF behaviour.kind = "response"
    THEN [agent_response |-> behaviour.text, llm_used |-> TRUE, error |-> FALSE]
    ELSE [agent_response |-> {}, llm_used |-> FALSE, error |-> TRUE]

\* pipeline_data["pipeline_input"] or pipeline_data["agents"][input_source]["output"].
source_value(pipeline_input, agents, input_source) ==
    IF input_source = "pipeline_input" THEN pipeline_input ELSE agents[input_source]

\* A _prepare_agent_input that names the value by its source whatever the number
\* of sources.
prepare_agent_input_named(pipeline_input, agents, agent_config) ==
    LET inputs == agent_config.inputs
        Valid(src) == src = "pipeline_input" \/ src \in DOMAIN agents
    IN  IF \E k \in 1..Len(inputs) : ~Valid(inputs[k])
        THEN [error |-> TRUE, input |-> <<>>]
        ELSE [error |-> FALSE,
              input |-> [src \in { inputs[k] : k \in 1..Len(inputs) } |->
                            source_value(pipeline_input, agents, src)]]

\* Orchestrator._prepare_agent_input: error is TRUE where PipelineError is raised.
prepare_agent_input(pipeline_input, agents, agent_config) ==
    LET inputs == agent_config.inputs
        Valid(src) == src = "pipeline_input" \/ src \in DOMAIN agents
    IN  IF \E k \in 1..Len(inputs) : ~Valid(inputs[k])
        THEN [error |-> TRUE, input |-> <<>>]
        ELSE IF Len(inputs) = 1
        THEN [error |-> FALSE, input |-> source_value(pipeline_input, agents, inputs[1])]
        ELSE [error |-> FALSE,
              input |-> [src \in { inputs[k] : k \in 1..Len(inputs) } |->
                            source_value(pipeline_input, agents, src)]]

\* A message that names the first declared source, valid or not.
invalid_input_source_first_declared(agents, agent_config) == agent_config.inputs[1]

\* The source the message of lines 526 and 536 names: the first declared
\* source that is neither 'pipeline_input' nor a key of pipeline_data["agents"].
invalid_input_source(agents, agent_config) ==
    LET inputs == agent_config.inputs
        Invalid(k) == inputs[k] # "pipeline_input" /\ inputs[k] \notin DOMAIN agents
        first == CHOOSE k \in 1..Len(inputs) :
                     Invalid(k) /\ \A j \in 1..(k - 1) : ~Invalid(j)
    IN  inputs[first]

(***************************************************************************)
(* The collaboration event log file (agentic/collaboration/event_log.py).  *)
(* Text is a sequence of symbols: the four characters JSON Lines treats    *)
(* specially, and chunks of ordinary characters.                           *)
(***************************************************************************)
QUOTE == "<quote>"
BACKSLASH == "<backslash>"
NEWLINE == "<LF>"
SPACE == "<space>"

\* CollaborationEventType: the values of the enum.
CollaborationEventTypes ==
    {"stakeholder_question_asked", "stakeholder_answer_received", "artifact_produced",
     "artifact_revised", "audit_gate_passed", "audit_gate_failed",
     "orchestrator_decision_made"}

\* CollaborationEvent.content_ref = None
NoContentRef == [present |-> FALSE, path |-> <<>>, content_hash |-> <<>>]

\* A CollaborationEvent as the orchestrator builds it.
BaseEvent ==
    [event_id |-> <<"0b6d">>,
     timestamp |-> <<"2026-01-01T00:00:00", "+00:00">>,
     run_id |-> <<"run-1">>,
     actor |-> <<"orchestrator">>,
     event_type |-> "artifact_produced",
     references |-> <<>>,
     content_ref |-> NoContentRef,
     summary |-> <<"Produced">>]

\* Field texts that exercise the encoding.
FieldTexts ==
    {<<>>, <<QUOTE>>, <<BACKSLASH>>, <<NEWLINE>>, <<BACKSLASH, "n">>,
     <<SPACE, "a", NEWLINE, SPACE>>, <<"}", ",", SPACE, "null", QUOTE, ":">>}

\* The events a caller hands to emit.
LogEvents ==
    {[BaseEvent EXCEPT !.summary = s] : s \in FieldTexts}
    \cup {[BaseEvent EXCEPT !.references = <<s>>] : s \in {<<QUOTE>>, <<NEWLINE>>, <<"]">>}}
    \cup {[BaseEvent EXCEPT !.references = <<<<"BusinessRequirements">>, <<",", SPACE>>>>]}
    \cup {[BaseEvent EXCEPT !.content_ref = [present |-> TRUE, path |-> s,
                                             content_hash |-> <<"sha256", ":", "ab">>]] :
            s \in {<<"blobs", BACKSLASH, "a.md">>, <<"null">>}}
    \cup {[BaseEvent EXCEPT !.event_type = "audit_gate_failed",
                            !.actor = <<"audit", SPACE, "gate">>]}
    \cup {[BaseEvent EXCEPT !.event_id = <<"7f3e">>,
                            !.timestamp = <<"2026-01-01T00:00:01.000001", "+00:00">>]}

\* json.dumps of one character of a str.
escape_symbol(c) ==
    IF c = QUOTE THEN <<BACKSLASH, QUOTE>>
    ELSE IF c = BACKSLASH THEN <<BACKSLASH, BACKSLASH>>
    ELSE IF c = NEWLINE THEN <<BACKSLASH, "n">>
    ELSE <<c>>

RECURSIVE json_escape_from(_, _)
json_escape_from(text, i) ==
    IF i > Len(text) THEN <<>>
    ELSE escape_symbol(text[i]) \o json_escape_from(text, i + 1)

\* An encoder that writes every character as it is.
json_escape_verbatim(text) == text

\* json.dumps of the characters of a str.
json_escape(text) == json_escape_from(text, 1)

json_string(text) == <<QUOTE>> \o json_escape(text) \o <<QUOTE>>
json_key(name) == <<QUOTE, name, QUOTE, ":", SPACE>>
ItemSeparator == <<",", SPACE>>

RECURSIVE json_string_items(_, _)
json_string_items(items, i) ==
    IF i > Len(items) THEN <<>>
    ELSE json_string(items[i])
         \o (IF i < Len(items) THEN ItemSeparator ELSE <<>>)
         \o json_string_items(items, i + 1)

json_string_list(items) == <<"[">> \o json_string_items(items, 1) \o <<"]">>

json_content_ref(ref) ==
    IF ~ref.present THEN <<"null">>
    ELSE <<"{">> \o json_key("path") \o json_string(ref.path) \o ItemSeparator
         \o json_key("content_hash") \o json_string(ref.content_hash) \o <<"}">>

\* json.dumps(event.model_dump(mode="json"), ensure_ascii=False): fields in declaration order.
json_dumps(event) ==
    <<"{">>
    \o json_key("event_id") \o json_string(event.event_id) \o ItemSeparator
    \o json_key("timestamp") \o json_string(event.timestamp) \o ItemSeparator
    \o json_key("run_id") \o json_string(event.run_id) \o ItemSeparator
    \o json_key("actor") \o json_string(event.actor) \o ItemSeparator
    \o json_key("event_type") \o json_string(<<event.event_type>>) \o ItemSeparator
    \o json_key("references") \o json_string_list(event.references) \o ItemSeparator
    \o json_key("content_ref") \o json_content_ref(event.content_ref) \o ItemSeparator
    \o json_key("summary") \o json_string(event.summary)
    \o <<"}">>

\* Parsing: every reader returns [ok, value, next]; next = 0 after a failure.
ParseFailure == [ok |-> FALSE, value |-> <<>>, next |-> 0]

\* The position after `pattern` if the line has it at position i, else 0.
expect(line, i, pattern) ==
    IF /\ i > 0
       /\ i + Len(pattern) - 1 <= Len(line)
       /\ SubSeq(line, i, i + Len(pattern) - 1) = pattern
    THEN i + Len(pattern)
    ELSE 0

RECURSIVE read_string_body(_, _, _)
read_string_body(line, i, acc) ==
    IF i > Len(line) THEN ParseFailure
    ELSE IF line[i] = QUOTE THEN [ok |-> TRUE, value |-> acc, next |-> i + 1]
    ELSE IF line[i] = NEWLINE THEN ParseFailure
    ELSE IF line[i] = BACKSLASH THEN
        IF i + 1 > Len(line) THEN ParseFailure
        ELSE IF line[i + 1] = "n" THEN read_string_body(line, i + 2, Append(acc, NEWLINE))
        ELSE IF line[i + 1] \in {QUOTE, BACKSLASH}
             THEN read_string_body(line, i + 2, Append(acc, line[i + 1]))
        ELSE ParseFailure
    ELSE read_string_body(line, i + 1, Append(acc, line[i]))

read_string(line, i) ==
    IF expect(line, i, <<QUOTE>>) = 0 THEN ParseFailure
    ELSE read_string_body(line, i + 1, <<>>)

RECURSIVE read_string_items(_, _, _)
read_string_items(line, i, acc) ==
    LET item == read_string(line, i)
    IN  IF ~item.ok THEN ParseFailure
        ELSE IF expect(line, item.next, <<"]">>) # 0
             THEN [ok |-> TRUE, value |-> Append(acc, item.value), next |-> item.next + 1]
        ELSE IF expect(line, item.next, ItemSeparator) # 0
             THEN read_string_items(line, expect(line, item.next, ItemSeparator),
                                    Append(acc, item.value))
        ELSE ParseFailure

read_string_list(line, i) ==
    IF expect(line, i, <<"[">>) = 0 THEN ParseFailure
    ELSE IF expect(line, i + 1, <<"]">>) # 0
         THEN [ok |-> TRUE, value |-> <<>>, next |-> i + 2]
    ELSE read_string_items(line, i + 1, <<>>)

read_content_ref(line, i) ==
    IF expect(line, i, <<"null">>) # 0
    THEN [ok |-> TRUE, value |-> NoContentRef, next |-> i + 1]
    ELSE LET path == read_string(line, expect(line, expect(line, i, <<"{">>),
                                              json_key("path")))
             hash == read_string(line, expect(line, expect(line, path.next, ItemSeparator),
                                              json_key("content_hash")))
             end == expect(line, hash.next, <<"}">>)
         IN  IF path.ok /\ hash.ok /\ end # 0
             THEN [ok |-> TRUE,
                   value |-> [present |-> TRUE, path |-> path.value,
                              content_hash |-> hash.value],
                   next |-> end]
             ELSE ParseFailure

\* The position of the value of the next field `name`, after the separator that ends
\* the field before it.
next_field(line, i, name) == expect(line, expect(line, i, ItemSeparator), json_key(name))

\* CollaborationEvent.model_validate_json(payload)
model_validate_json(payload) ==
    LET event_id == read_string(payload, expect(payload, expect(payload, 1, <<"{">>),
                                                json_key("event_id")))
        timestamp == read_string(payload, next_field(payload, event_id.next, "timestamp"))
        run_id == read_string(payload, next_field(payload, timestamp.next, "run_id"))
        actor == read_string(payload, next_field(payload, run_id.next, "actor"))
        event_type == read_string(payload, next_field(payload, actor.next, "event_type"))
        references == read_string_list(payload,
                                       next_field(payload, event_type.next, "references"))
        content_ref == read_content_ref(payload,
                                        next_field(payload, references.next, "content_ref"))
        summary == read_string(payload, next_field(payload, content_ref.next, "summary"))
        end == expect(payload, summary.next, <<"}">>)
    IN  IF /\ event_id.ok /\ timestamp.ok /\ run_id.ok /\ actor.ok /\ event_type.ok
           /\ references.ok /\ content_ref.ok /\ summary.ok
           /\ end = Len(payload) + 1
           /\ Len(event_type.value) = 1
           /\ event_type.value[1] \in CollaborationEventTypes
        THEN [ok |-> TRUE,
              value |-> [event_id |-> event_id.value,
                         timestamp |-> timestamp.value,
                         run_id |-> run_id.value,
                         actor |-> actor.value,
                         event_type |-> event_type.value[1],
                         references |-> references.value,
                         content_ref |-> content_ref.value,
                         summary |-> summary.value],
              next |-> end]
        ELSE ParseFailure

\* Iterating a text file: the lines, each with its line end, and a last line without one.
file_lines(text) ==
    LET ends == { i \in 1..Len(text) : text[i] = NEWLINE }
        starts == { i \in 1..Len(text) : i = 1 \/ (i - 1) \in ends }
        start_of(k) == CHOOSE i \in starts : Cardinality({ j \in starts : j < i }) = k - 1
        end_of(i) == IF \E e \in ends : e >= i
                     THEN CHOOSE e \in ends : e >= i /\ \A f \in ends : f >= i => e <= f
                     ELSE Len(text)
    IN  [k \in 1..Cardinality(starts) |-> SubSeq(text, start_of(k), end_of(start_of(k)))]

Whitespace == {SPACE, NEWLINE}

\* str.strip()
RECURSIVE strip(_)
strip(line) ==
    IF line = <<>> THEN line
    ELSE IF Head(line) \in Whitespace THEN strip(Tail(line))
    ELSE IF line[Len(line)] \in Whitespace THEN strip(SubSeq(line, 1, Len(line) - 1))
    ELSE line

\* The loop of read_all, lines 34-38: an event per non-blank line; a line that does not
\* validate raises.
RECURSIVE read_lines(_, _, _)
read_lines(lines, i, events) ==
    IF i > Len(lines) THEN [ok |-> TRUE, events |-> events]
    ELSE LET payload == strip(lines[i])
             parsed == model_validate_json(payload)
         IN  IF payload = <<>> THEN read_lines(lines, i + 1, events)
             ELSE IF ~parsed.ok THEN [ok |-> FALSE, events |-> <<>>]
             ELSE read_lines(lines, i + 1, Append(events, parsed.value))

\* CollaborationEventLog.read_all on the content of the file (no file: no content).
read_all(file) == read_lines(file_lines(file), 1, <<>>)

\* What a file opened with mode "w" holds.
open_truncate(file) == <<>>

\* What a file opened with mode "a" holds: what it held.
open_append(file) == file

NotRead == [ok |-> FALSE, done |-> FALSE, events |-> <<>>]

FreshLog ==
    /\ events_file = <<>>
    /\ write_buffer = <<>>
    /\ log_pc = "idle"
    /\ pending_event = BaseEvent
    /\ emitted = <<>>
    /\ events_read = NotRead
    /\ crashed_at = "none"

(***************************************************************************)
(* The artifact store on disk (agentic/artifacts/store.py).  A run id is   *)
(* <<stem, counter>>: the stem is the timestamp and the eight characters   *)
(* of the uuid, counter 0 is the id without a suffix.  A file is the       *)
(* sequence of the <<key, value>> members that have reached it.            *)
(***************************************************************************)
\* What datetime.now() and uuid4() can give two calls: the same stem, or another.
Stems == {"20260101_000000_0a1b2c3d", "20260101_000001_4e5f6a7b"}

RunIds == Stems \X (0..MaxRuns)

\* ArtifactType values the store is given here.
StoreKinds == {"ProblemBrief", "ImplementableSpec"}

\* The members of the ArtifactType enum, by value.
ArtifactType ==
    {"ProblemBrief", "BusinessRequirements", "NonFunctionalRequirements", "C4Model",
     "ArchitectureDecisionRecordSet", "TechStackRecommendation", "AssumptionLedger",
     "TradeoffRegister", "InfoSufficiencyAssessment", "TraceabilityMatrix",
     "ImplementableSpec", "ImplementationDesign", "WorkBreakdown", "DesignReview",
     "CodeReview", "ThreatModel", "PrivacyChecklist", "TestPlan", "AcceptanceTests",
     "Amendment"}

StoreContents == {"v1", "v2"}

\* An envelope a caller passes to write_artifact.
StoreArtifact(kind, content) ==
    [artifact_type |-> kind,
     created_by_role |-> "business_analyst",
     content |-> content,
     content_hash |-> IF content = "v1" THEN "sha256:v1" ELSE "sha256:v2"]

NoStoreArtifact ==
    [artifact_type |-> None, created_by_role |-> None, content |-> None,
     content_hash |-> None]

NoFiles == [path \in {} |-> <<>>]

\* A run directory that does not exist.
NoRunDirectory == [exists |-> FALSE, dirs |-> {}, files |-> NoFiles]

ArtifactFile(kind) == <<"artifacts", kind>>
EventsFile == <<"collaboration", "collaboration_events.jsonl">>
MetadataFile == <<"", "metadata.json">>

\* run_dir.exists() of the candidate <<stem, counter>>, lines 30-35.
RECURSIVE first_free_counter(_, _, _)
first_free_counter(directory, stem, counter) ==
    IF directory[<<stem, counter>>].exists
    THEN first_free_counter(directory, stem, counter + 1)
    ELSE counter

\* A generate_run_id that does not look at the directories that exist.
generate_run_id_unchecked(directory, stem) == <<stem, 0>>

\* ArtifactStore.generate_run_id, given what the clock and uuid4 gave.
generate_run_id(directory, stem) == <<stem, first_free_counter(directory, stem, 0)>>

\* An initialize_run that makes the layout anew.
initialize_run_afresh(directory, enabled, run_id) ==
    IF ~enabled THEN directory
    ELSE [directory EXCEPT ![run_id] =
            [exists |-> TRUE, dirs |-> {"artifacts", "collaboration"}, files |-> NoFiles]]

\* ArtifactStore.initialize_run: mkdir(parents=True, exist_ok=True) of the two subdirectories.
initialize_run(directory, enabled, run_id) ==
    IF ~enabled THEN directory
    ELSE [directory EXCEPT ![run_id] =
            [exists |-> TRUE, dirs |-> @.dirs \cup {"artifacts", "collaboration"},
             files |-> @.files]]

\* json.dump(artifact.model_dump(mode="json")): the members in declaration order.
json_dump_artifact(artifact) ==
    <<<<"identity.artifact_type", artifact.artifact_type>>,
      <<"provenance.created_by_role", artifact.created_by_role>>,
      <<"content", artifact.content>>,
      <<"content_hash", artifact.content_hash>>>>

ArtifactMembers ==
    <<"identity.artifact_type", "provenance.created_by_role", "content", "content_hash">>

\* A write_artifact that puts every kind of a run in one file.
artifact_path_shared(artifact) == ArtifactFile("artifact")

\* The path of line 60 inside the run directory.
artifact_path(artifact) == ArtifactFile(artifact.artifact_type)

\* ArtifactStore.write_artifact.  open(path, "w") empties the file; the text json.dump
\* writes stays in the file object until the with block closes it, so of a call that
\* completes every member reaches the file and of one the process dies in, none.
store_write_artifact(directory, enabled, run_id, artifact, completes) ==
    IF ~enabled THEN directory
    ELSE LET ready == initialize_run(directory, enabled, run_id)
         IN  [ready EXCEPT ![run_id].files =
                 Put(@, artifact_path(artifact),
                     IF completes THEN json_dump_artifact(artifact) ELSE <<>>)]

\* ArtifactStore.write_metadata: metadata.json of the run is written anew.
store_write_metadata(directory, enabled, run_id, execution_successful) ==
    IF ~enabled THEN directory
    ELSE LET ready == initialize_run(directory, enabled, run_id)
         IN  [ready EXCEPT ![run_id].files =
                 Put(@, MetadataFile,
                     <<<<"execution_successful", execution_successful>>>>)]

\* The write_metadata that run_derived_pipeline calls: it also stores pipeline_input.
store_write_metadata_replayable(directory, enabled, run_id, execution_successful) ==
    IF ~enabled THEN directory
    ELSE LET ready == initialize_run(directory, enabled, run_id)
         IN  [ready EXCEPT ![run_id].files =
                 Put(@, MetadataFile,
                     <<<<"execution_successful", execution_successful>>,
                       <<"pipeline_input", "content">>>>)]

\* load_base_run_metadata and apply_amendment: what stops a derived run before it starts.
derived_run_refusal(directory, base_run_id) ==
    LET files == directory[base_run_id].files
    IN  IF MetadataFile \notin DOMAIN files THEN "FileNotFoundError"
        ELSE IF \A k \in 1..Len(files[MetadataFile]) :
                    files[MetadataFile][k][1] # "pipeline_input"
        THEN "ValueError"
        ELSE None

\* A read_artifact that answers with an empty envelope where it cannot read one.
store_read_artifact_lenient(directory, run_id, artifact_type) ==
    LET path == ArtifactFile(artifact_type)
        files == directory[run_id].files
    IN  IF path \in DOMAIN files /\ Len(files[path]) = Len(ArtifactMembers)
        THEN [status |-> "ok",
              value |-> [artifact_type |-> files[path][1][2],
                         created_by_role |-> files[path][2][2],
                         content |-> files[path][3][2],
                         content_hash |-> files[path][4][2]]]
        ELSE [status |-> "ok", value |-> NoStoreArtifact]

\* ArtifactStore.read_artifact: open, json.load, Artifact.model_validate.
store_read_artifact(directory, run_id, artifact_type) ==
    LET path == ArtifactFile(artifact_type)
        files == directory[run_id].files
        text == files[path]
    IN  IF path \notin DOMAIN files
        THEN [status |-> "FileNotFoundError", value |-> NoStoreArtifact]
        ELSE IF Len(text) < Len(ArtifactMembers)
        THEN [status |-> "JSONDecodeError", value |-> NoStoreArtifact]
        ELSE IF \/ \E k \in 1..Len(ArtifactMembers) : text[k][1] # ArtifactMembers[k]
                \/ text[1][2] \notin ArtifactType
        THEN [status |-> "ValidationError", value |-> NoStoreArtifact]
        ELSE [status |-> "ok",
              value |-> [artifact_type |-> text[1][2], created_by_role |-> text[2][2],
                         content |-> text[3][2], content_hash |-> text[4][2]]]

\* CollaborationEventLog.emit on the log of a run: the collaboration directory is made
\* and a line is appended.
store_emit(directory, run_id, event_type) ==
    [directory EXCEPT ![run_id] =
        [exists |-> TRUE,
         dirs |-> @.dirs \cup {"collaboration"},
         files |-> Put(@.files, EventsFile,
                       (IF EventsFile \in DOMAIN @.files THEN @.files[EventsFile] ELSE <<>>)
                       \o <<<<"event_type", event_type>>>>)]]

NoRunId == <<None, 0>>

NoStoreResult ==
    [op |-> None, run_id |-> NoRunId, base_run_id |-> NoRunId, kind |-> None,
     status |-> None, value |-> NoStoreArtifact]

NoWritten == [key \in {} |-> <<>>]

FreshStore ==
    /\ runs_directory = [run_id \in RunIds |-> NoRunDirectory]
    /\ create_artifacts = TRUE
    /\ issued = <<>>
    /\ written = NoWritten
    /\ store_result = NoStoreResult
    /\ store_calls = 0
    /\ call_args = <<>>
    /\ call_result = <<>>

(***************************************************************************)
(* The orchestrator: Orchestrator.__init__ and execute_pipeline.           *)
(***************************************************************************)
cfg_vars == <<pipeline_config, agent_configs, audit_config, input_data, store_mode,
              has_log, faults_enabled, baseline, log_vars, store_vars, call_vars>>

AllAgentNames == { RoleOrder[k] : k \in 1..Len(RoleOrder) }

NoResult == [execution_successful |-> FALSE, agents |-> EmptyMap,
             blocking_gaps |-> <<>>, artifacts_manifest |-> <<>>]

NoAssessment == [confidence_score |-> 0, blocking_gaps |-> <<>>]

NoBaseline == [taken |-> FALSE, script |-> <<>>, trace |-> <<>>, artifacts |-> EmptyMap,
               audit_results_file |-> NoAuditFile, outcome |-> "running", result |-> NoResult]

\* The state of a freshly constructed run, before Orchestrator.__init__ has validated.
FreshRun ==
    /\ pc = "new"
    /\ step_index = 0
    /\ pipeline_agents = EmptyMap
    /\ artifacts_manifest = <<>>
    /\ sufficiency_assessment = NoAssessment
    /\ artifacts = EmptyMap
    /\ audit_results_file = NoAuditFile
    /\ event_log = <<>>
    /\ uuid_counter = 0
    /\ trace = <<>>
    /\ outcome = "running"
    /\ result = NoResult
    /\ script = <<>>

\* The configuration, the input and the collaborators a run is given.
RunSetup ==
    /\ pipeline_config \in PipelineConfigs
    /\ agent_configs \in {AllAgentNames, AllAgentNames \ {RoleOrder[1]}}
    /\ audit_config \in AuditConfigs
    /\ input_data \in PipelineInputs
    /\ store_mode \in {"none", "disabled", "enabled"}
    /\ has_log \in BOOLEAN

Init ==
    /\ RunSetup
    /\ faults_enabled = TRUE
    /\ baseline = NoBaseline
    /\ FreshRun
    /\ FreshLog
    /\ FreshStore

\* A gate whose comparison is inverted.
BelowThresholdInverted(score, threshold) == score > threshold

\* The comparisons of lines 165 and 384.
BelowThreshold(score, threshold) == score < threshold

Persisting == store_mode = "enabled"
HasStore == store_mode # "none"
Threshold == audit_config.min_confidence_to_proceed

\* Orchestrator._validate_pipeline_config: TRUE where it raises PipelineError.
validate_pipeline_config_raises(config, loadable) ==
    \/ Len(config) = 0
    \/ \E k \in 1..Len(config) : config[k].name \notin loadable

\* Orchestrator.__init__ (lines 56-70).
Construct ==
    /\ pc = "new"
    /\ IF validate_pipeline_config_raises(pipeline_config, agent_configs)
       THEN pc' = "done" /\ outcome' = "ConfigRejected"
       ELSE pc' = "ready" /\ outcome' = outcome
    /\ UNCHANGED <<cfg_vars, step_index, pipeline_agents, artifacts_manifest,
                   sufficiency_assessment, artifacts, audit_results_file, event_log,
                   uuid_counter, trace, result, script>>

\* What ConfigLoader.get_audit_config raises when agentic.yaml is missing or
\* does not validate (load_agentic_config, config_loader.py:249-271).
NoAgenticConfig == [raises |-> "ConfigValidationError"]

\* Line 129, before the try block opens at line 142: TRUE where the call
\* raises, and the exception then leaves execute_pipeline as it is.
get_audit_config_raises(config) == "raises" \in DOMAIN config

\* execute_pipeline lines 119-140: pipeline_data is set up, the audit
\* configuration is fetched, "started" is emitted.
ExecuteStart ==
    /\ pc = "ready"
    /\ IF get_audit_config_raises(audit_config)
       THEN /\ outcome' = "ConfigValidationError"
            /\ pc' = "done"
            /\ UNCHANGED <<event_log, trace, uuid_counter>>
       ELSE \E f \in FaultChoices :
              LET es == EmitIf(has_log, EmitState, "orchestrator",
                               "orchestrator_decision_made",
                               <<>>, "Pipeline execution started", f)
              IN  SetEmitState(es) /\ Then(es, "sufficiency", outcome)
    /\ UNCHANGED <<cfg_vars, step_index, pipeline_agents, artifacts_manifest,
                   sufficiency_assessment, artifacts, audit_results_file, result,
                   script>>

\* execute_pipeline lines 143-162: the assessment and its artifact.
SufficiencyCheck ==
    /\ pc = "sufficiency"
    /\ LET assessment == run_sufficiency_evaluation(input_data,
                             audit_config.min_input_size_for_sufficiency,
                             audit_config.insufficient_markers)
           artifact == build_system_artifact(RunId, "InfoSufficiencyAssessment",
                                             assessment, uuid_counter + 1)
       IN  /\ sufficiency_assessment' = assessment
           /\ uuid_counter' = IF HasStore THEN uuid_counter + 1 ELSE uuid_counter
           /\ IF Persisting
              THEN /\ artifacts' = write_artifact(artifacts, artifact)
                   /\ artifacts_manifest' = append_manifest_entry(artifacts_manifest, artifact)
                   /\ trace' = Append(trace, Op("write_artifact", "orchestrator",
                                                artifact.artifact_type, "", TRUE))
              ELSE UNCHANGED <<artifacts, artifacts_manifest, trace>>
    /\ pc' = "gate"
    /\ UNCHANGED <<cfg_vars, step_index, pipeline_agents, audit_results_file, event_log,
                   outcome, result, script>>

TrivialPassSnapshot ==
    [deterministic |-> [passed |-> TRUE, errors |-> {}],
     semantic |-> [confidence_score |-> sufficiency_assessment.confidence_score,
                   blocking_gaps |-> sufficiency_assessment.blocking_gaps],
     sufficiency |-> sufficiency_assessment,
     traceability_matrix_ref |-> None]

\* The two events of the blocked path in the opposite order.
BlockedEventsSwapped(es, f1, f2) ==
    LET es1 == EmitIf(has_log, es, "orchestrator", "orchestrator_decision_made",
                      <<"InfoSufficiencyAssessment">>,
                      "Pipeline stopped: insufficient information", f1)
    IN  EmitIf(has_log, es1, "orchestrator", "audit_gate_failed",
               <<"InfoSufficiencyAssessment">>, "Sufficiency audit failed", f2)

\* Lines 181-197: the two events of the blocked path.
BlockedEvents(es, f1, f2) ==
    LET es1 == EmitIf(has_log, es, "orchestrator", "audit_gate_failed",
                      <<"InfoSufficiencyAssessment">>, "Sufficiency audit failed", f1)
    IN  EmitIf(has_log, es1, "orchestrator", "orchestrator_decision_made",
               <<"InfoSufficiencyAssessment">>,
               "Pipeline stopped: insufficient information", f2)

\* execute_pipeline lines 165-209: the run is blocked.
Blocked ==
    /\ pc = "gate"
    /\ BelowThreshold(sufficiency_assessment.confidence_score, Threshold)
    /\ audit_results_file' = IF Persisting
                             THEN write_audit_results(audit_results_file, TrivialPassSnapshot)
                             ELSE audit_results_file
    /\ \E f1, f2 \in FaultChoices :
         LET es0 == IF Persisting
                    THEN Traced(EmitState, Op("write_audit", "orchestrator",
                                              "audits/audit_results.json", "", TRUE))
                    ELSE EmitState
             es2 == BlockedEvents(es0, f1, f2)
         IN  SetEmitState(es2) /\ Then(es2, "done", "returned")
    /\ result' = [execution_successful |-> FALSE,
                  agents |-> EmptyMap,
                  blocking_gaps |-> sufficiency_assessment.blocking_gaps,
                  artifacts_manifest |-> artifacts_manifest]
    /\ UNCHANGED <<cfg_vars, step_index, pipeline_agents, artifacts_manifest,
                   sufficiency_assessment, artifacts, script>>

\* execute_pipeline lines 211-219: the gate is passed.
GatePassed ==
    /\ pc = "gate"
    /\ ~BelowThreshold(sufficiency_assessment.confidence_score, Threshold)
    /\ \E f \in FaultChoices :
         LET es == EmitIf(has_log, EmitState, "orchestrator", "audit_gate_passed",
                          <<"InfoSufficiencyAssessment">>, "Sufficiency audit passed", f)
         IN  SetEmitState(es) /\ Then(es, "loop", outcome)
    /\ step_index' = 1
    /\ UNCHANGED <<cfg_vars, pipeline_agents, artifacts_manifest, sufficiency_assessment,
                   artifacts, audit_results_file, result, script>>

\* The except clause of execute_pipeline (lines 431-434).
RaisePipelineError ==
    /\ outcome' = "PipelineError"
    /\ pc' = "done"

\* Loop body, lines 242-243: input resolution raises for an unknown source.
StepInvalidSource ==
    /\ pc = "loop"
    /\ prepare_agent_input(input_data, pipeline_agents, pipeline_config[step_index]).error
    /\ trace' = Append(trace, Op("raise", pipeline_config[step_index].name, "PipelineError",
                                 invalid_input_source(pipeline_agents,
                                                      pipeline_config[step_index]),
                                 FALSE))
    /\ RaisePipelineError
    /\ UNCHANGED <<cfg_vars, step_index, pipeline_agents, artifacts_manifest,
                   sufficiency_assessment, artifacts, audit_results_file, event_log,
                   uuid_counter, result, script>>

\* A loop body that announces the artifact before it writes it.
PersistStepArtifactAnnouncedFirst(es, name, artifact, f) ==
    LET es2 == EmitIf(Persisting /\ has_log, es, name, "artifact_produced",
                      <<artifact.artifact_type, artifact.content_hash>>,
                      "Artifact produced", f)
    IN  IF Persisting
        THEN Traced(es2, Op("write_artifact", name, artifact.artifact_type, "", TRUE))
        ELSE es2

\* Loop body, lines 268-293: the artifact is written, and when a path came
\* back and an event log was passed, artifact_produced is emitted by the step's
\* agent with references [artifact_id, content_hash] (the artifact id is the
\* value of the artifact type, line 623).
PersistStepArtifact(es, name, artifact, f) ==
    LET es2 == IF Persisting
               THEN Traced(es, Op("write_artifact", name, artifact.artifact_type, "", TRUE))
               ELSE es
    IN  EmitIf(Persisting /\ has_log, es2, name, "artifact_produced",
               <<artifact.artifact_type, artifact.content_hash>>,
               "Artifact produced", f)

\* The behaviour the provider shows at step k: free, or replayed from the reference run.
BehaviourChoices(k) ==
    IF baseline.taken /\ k <= Len(baseline.script) THEN {baseline.script[k]}
    ELSE AgentBehaviours

\* Loop body, lines 222-308: one agent step.
StepExecute ==
    /\ pc = "loop"
    /\ LET agent_config == pipeline_config[step_index]
           name == agent_config.name
       IN  /\ ~prepare_agent_input(input_data, pipeline_agents, agent_config).error
           /\ \E behaviour \in BehaviourChoices(Len(script) + 1), f \in FaultChoices :
                LET output == execute_template(behaviour)
                    es0 == Traced(EmitState, Op("invoke", name, "execute_template", "",
                                                behaviour.kind = "response"))
                    artifact == build_artifact(RunId, name, output, es0.uuid + 1)
                    es1 == IF HasStore THEN DrawUuid(es0) ELSE es0
                    es3 == PersistStepArtifact(es1, name, artifact, f)
                IN  /\ pipeline_agents' = Put(pipeline_agents, name, output)
                    /\ script' = Append(script, behaviour)
                    /\ IF Persisting
                       THEN /\ artifacts' = write_artifact(artifacts, artifact)
                            /\ artifacts_manifest' =
                                   append_manifest_entry(artifacts_manifest, artifact)
                       ELSE UNCHANGED <<artifacts, artifacts_manifest>>
                    /\ SetEmitState(es3)
                    /\ Then(es3, IF step_index = Len(pipeline_config)
                                 THEN "traceability" ELSE "loop", outcome)
    /\ step_index' = IF step_index = Len(pipeline_config) THEN step_index
                     ELSE step_index + 1
    /\ UNCHANGED <<cfg_vars, sufficiency_assessment, audit_results_file, result>>

\* execute_pipeline lines 310-341: the traceability matrix artifact.
TraceabilityBuild ==
    /\ pc = "traceability"
    /\ \E f \in FaultChoices :
         LET matrix == build_traceability_matrix(collect_artifact_contents(artifacts))
             artifact == build_system_artifact(RunId, "TraceabilityMatrix", matrix,
                                               uuid_counter + 1)
             es1 == IF HasStore THEN DrawUuid(EmitState) ELSE EmitState
             es2 == IF Persisting
                    THEN Traced(es1, Op("write_artifact", "orchestrator",
                                        artifact.artifact_type, "", TRUE))
                    ELSE es1
             es3 == EmitIf(Persisting /\ has_log, es2, "orchestrator", "artifact_produced",
                           <<artifact.artifact_type, artifact.content_hash>>,
                           "Artifact produced", f)
         IN  /\ IF Persisting
                THEN /\ artifacts' = write_artifact(artifacts, artifact)
                     /\ artifacts_manifest' = append_manifest_entry(artifacts_manifest, artifact)
                ELSE UNCHANGED <<artifacts, artifacts_manifest>>
             /\ SetEmitState(es3)
             /\ Then(es3, "audit", outcome)
    /\ UNCHANGED <<cfg_vars, step_index, pipeline_agents, sufficiency_assessment,
                   audit_results_file, result, script>>

\* A post-execution audit that finds nothing whatever the run directory holds.
AuditResultsNothingFound ==
    [passed |-> TRUE, errors |-> {},
     results |-> [traceability |-> {}, consistency |-> {}, completeness |-> {}]]

\* The audits of lines 343-353 over the artifacts now in the run directory.
AuditResults ==
    IF HasStore THEN run_deterministic_audit(collect_artifact_contents(artifacts))
    ELSE [passed |-> TRUE, errors |-> {},
          results |-> [traceability |-> {}, consistency |-> {}, completeness |-> {}]]

SemanticResults ==
    IF HasStore THEN run_semantic_audit(collect_artifact_contents(artifacts), None)
    ELSE [confidence_score |-> FullConfidence, blocking_gaps |-> <<>>,
          evidence_refs |-> {}, rubric_ref |-> None]

\* A snapshot that records the audit as passed whatever it found.
CombinedSnapshotAlwaysPassed ==
    [deterministic |-> [passed |-> TRUE, errors |-> {}],
     semantic |-> [confidence_score |-> SemanticResults.confidence_score,
                   blocking_gaps |-> SemanticResults.blocking_gaps],
     sufficiency |-> sufficiency_assessment,
     traceability_matrix_ref |-> IF Persisting THEN "artifacts/TraceabilityMatrix.json"
                                 ELSE None]

CombinedSnapshot ==
    [deterministic |-> [passed |-> AuditResults.passed, errors |-> AuditResults.errors],
     semantic |-> [confidence_score |-> SemanticResults.confidence_score,
                   blocking_gaps |-> SemanticResults.blocking_gaps],
     sufficiency |-> sufficiency_assessment,
     traceability_matrix_ref |-> IF Persisting THEN "artifacts/TraceabilityMatrix.json"
                                 ELSE None]

\* Lines 355-380: the snapshot is written and the gate event emitted.
AuditRecorded(es, f) ==
    LET es1 == IF Persisting
               THEN Traced(es, Op("write_audit", "orchestrator",
                                  "audits/audit_results.json", "", TRUE))
               ELSE es
    IN  EmitIf(HasStore /\ has_log, es1, "orchestrator",
               IF AuditResults.passed THEN "audit_gate_passed" ELSE "audit_gate_failed",
               <<"audits/audit_results.json">>,
               IF AuditResults.passed THEN "Deterministic audit passed"
               ELSE "Deterministic audit failed", f)

\* execute_pipeline lines 343-382: the deterministic audit fails.
PostAuditFail ==
    /\ pc = "audit"
    /\ HasStore
    /\ ~AuditResults.passed
    /\ audit_results_file' = IF Persisting
                             THEN write_audit_results(audit_results_file, CombinedSnapshot)
                             ELSE audit_results_file
    /\ \E f \in FaultChoices : SetEmitState(AuditRecorded(EmitState, f))
    /\ RaisePipelineError
    /\ UNCHANGED <<cfg_vars, step_index, pipeline_agents, artifacts_manifest,
                   sufficiency_assessment, artifacts, result, script>>

\* execute_pipeline lines 343-394: the deterministic audit passes; the semantic
\* confidence is then compared with the threshold.
PostAuditPass ==
    /\ pc = "audit"
    /\ AuditResults.passed
    /\ audit_results_file' = IF Persisting
                             THEN write_audit_results(audit_results_file, CombinedSnapshot)
                             ELSE audit_results_file
    /\ \E f1, f2 \in FaultChoices :
         LET es1 == IF HasStore THEN AuditRecorded(EmitState, f1) ELSE EmitState
             semantic_fails == HasStore /\ BelowThreshold(SemanticResults.confidence_score, Threshold)
             es2 == EmitIf(semantic_fails /\ has_log, es1, "orchestrator", "audit_gate_failed",
                           <<"audits/audit_results.json">>,
                           "Semantic audit confidence below threshold", f2)
         IN  /\ (~(semantic_fails /\ has_log) => ~f2)
             /\ SetEmitState(es2)
             /\ IF semantic_fails
                THEN RaisePipelineError
                ELSE Then(es2, "finish", outcome)
    /\ UNCHANGED <<cfg_vars, step_index, pipeline_agents, artifacts_manifest,
                   sufficiency_assessment, artifacts, result, script>>

\* execute_pipeline lines 396-429: the final result.
Complete ==
    /\ pc = "finish"
    /\ \E f \in FaultChoices :
         LET es == EmitIf(has_log, EmitState, "orchestrator", "orchestrator_decision_made",
                          <<>>, "Pipeline execution completed", f)
         IN  SetEmitState(es) /\ Then(es, "done", "returned")
    /\ result' = [execution_successful |-> TRUE,
                  agents |-> pipeline_agents,
                  blocking_gaps |-> <<>>,
                  artifacts_manifest |-> artifacts_manifest]
    /\ UNCHANGED <<cfg_vars, step_index, pipeline_agents, artifacts_manifest,
                   sufficiency_assessment, artifacts, audit_results_file, script>>

Next ==
    \/ Construct
    \/ ExecuteStart
    \/ SufficiencyCheck
    \/ Blocked
    \/ GatePassed
    \/ StepInvalidSource
    \/ StepExecute
    \/ TraceabilityBuild
    \/ PostAuditFail
    \/ PostAuditPass
    \/ Complete

Spec == Init /\ [][Next]_vars

(***************************************************************************)
(* One process emitting to the log file and reading it back.               *)
(***************************************************************************)
InitLog ==
    /\ pipeline_config = <<>>
    /\ agent_configs = AllAgentNames
    /\ audit_config \in {c \in AuditConfigs : c.min_confidence_to_proceed = 6}
    /\ input_data \in {d \in PipelineInputs : d.size = 200 /\ d.content = {}}
    /\ store_mode = "enabled"
    /\ has_log = TRUE
    /\ faults_enabled = FALSE
    /\ baseline = NoBaseline
    /\ FreshRun
    /\ FreshLog
    /\ FreshStore

\* emit, lines 21-22: the directory is made and the file is opened for appending.
EmitOpen ==
    /\ log_pc = "idle"
    /\ Len(emitted) < MaxEvents
    /\ \E event \in LogEvents : pending_event' = event
    /\ events_file' = open_append(events_file)
    /\ write_buffer' = <<>>
    /\ log_pc' = "opened"
    /\ events_read' = NotRead
    /\ UNCHANGED <<orch_vars, emitted, crashed_at>>

\* emit, line 23: the JSON text of the event goes to the file object.
EmitWritePayload ==
    /\ log_pc = "opened"
    /\ write_buffer' = write_buffer \o json_dumps(pending_event)
    /\ log_pc' = "payload"
    /\ UNCHANGED <<orch_vars, events_file, pending_event, emitted, events_read, crashed_at>>

\* emit, line 24: the line end goes to the file object.
EmitWriteNewline ==
    /\ log_pc = "payload"
    /\ write_buffer' = Append(write_buffer, NEWLINE)
    /\ log_pc' = "newline"
    /\ UNCHANGED <<orch_vars, events_file, pending_event, emitted, events_read, crashed_at>>

\* emit, line 25: flush hands the buffered text to the operating system.
EmitFlush ==
    /\ log_pc = "newline"
    /\ events_file' = events_file \o write_buffer
    /\ write_buffer' = <<>>
    /\ log_pc' = "flushed"
    /\ UNCHANGED <<orch_vars, pending_event, emitted, events_read, crashed_at>>

\* emit: the with block closes the file and the call returns.
EmitReturn ==
    /\ log_pc = "flushed"
    /\ emitted' = Append(emitted, pending_event)
    /\ log_pc' = "idle"
    /\ UNCHANGED <<orch_vars, events_file, write_buffer, pending_event, events_read,
                   crashed_at>>

\* The process dies: text still in the file object is lost, the file stays as it is.
Crash ==
    /\ log_pc # "crashed"
    /\ crashed_at' = log_pc
    /\ log_pc' = "crashed"
    /\ write_buffer' = <<>>
    /\ UNCHANGED <<orch_vars, events_file, pending_event, emitted, events_read>>

\* read_all, between emits or after the crash.
ReadAll ==
    /\ log_pc \in {"idle", "crashed"}
    /\ ~events_read.done
    /\ LET returned == read_all(events_file)
       IN  events_read' = [ok |-> returned.ok, done |-> TRUE, events |-> returned.events]
    /\ UNCHANGED <<orch_vars, events_file, write_buffer, log_pc, pending_event, emitted,
                   crashed_at>>

NextLog ==
    \/ EmitOpen
    \/ EmitWritePayload
    \/ EmitWriteNewline
    \/ EmitFlush
    \/ EmitReturn
    \/ Crash
    \/ ReadAll

SpecLog == InitLog /\ [][NextLog]_vars

(***************************************************************************)
(* Calls on one artifact store, by the processes that use its directory.   *)
(***************************************************************************)
InitStore ==
    /\ pipeline_config = <<>>
    /\ agent_configs = AllAgentNames
    /\ audit_config \in {c \in AuditConfigs : c.min_confidence_to_proceed = 6}
    /\ input_data \in {d \in PipelineInputs : d.size = 200 /\ d.content = {}}
    /\ store_mode = "enabled"
    /\ has_log = TRUE
    /\ faults_enabled = FALSE
    /\ baseline = NoBaseline
    /\ FreshRun
    /\ FreshLog
    /\ runs_directory = [run_id \in RunIds |-> NoRunDirectory]
    /\ create_artifacts \in BOOLEAN
    /\ issued = <<>>
    /\ written = NoWritten
    /\ store_result = NoStoreResult
    /\ store_calls = 0
    /\ call_args = <<>>
    /\ call_result = <<>>

IssuedIds == { issued[k] : k \in 1..Len(issued) }

StoreCall ==
    /\ store_calls < MaxStoreCalls
    /\ store_calls' = store_calls + 1

Returned(op, run_id, kind, status, value) ==
    [op |-> op, run_id |-> run_id, base_run_id |-> NoRunId, kind |-> kind,
     status |-> status, value |-> value]

WrittenTo(key) == IF key \in DOMAIN written THEN written[key] ELSE <<>>

Forget(map, key) == [k \in (DOMAIN map) \ {key} |-> map[k]]

GenerateRunId ==
    /\ StoreCall
    /\ Len(issued) < MaxRuns
    /\ \E stem \in Stems :
        LET run_id == generate_run_id(runs_directory, stem)
        IN  /\ issued' = Append(issued, run_id)
            /\ store_result' = Returned("generate_run_id", run_id, None, "ok", NoStoreArtifact)
    /\ UNCHANGED <<run_vars, log_vars, runs_directory, create_artifacts, written>>

InitializeRun ==
    /\ StoreCall
    /\ \E run_id \in IssuedIds :
        /\ runs_directory' = initialize_run(runs_directory, create_artifacts, run_id)
        /\ store_result' = Returned("initialize_run", run_id, None,
                                    IF create_artifacts THEN "ok" ELSE "none",
                                    NoStoreArtifact)
    /\ UNCHANGED <<run_vars, log_vars, create_artifacts, issued, written>>

WriteArtifact ==
    /\ StoreCall
    /\ \E run_id \in IssuedIds, kind \in StoreKinds, content \in StoreContents :
        LET artifact == StoreArtifact(kind, content)
        IN  /\ runs_directory' = store_write_artifact(runs_directory, create_artifacts,
                                                      run_id, artifact, TRUE)
            /\ written' = IF create_artifacts
                          THEN Put(written, <<run_id, kind>>,
                                   Append(WrittenTo(<<run_id, kind>>), artifact))
                          ELSE written
            /\ store_result' = Returned("write_artifact", run_id, kind,
                                        IF create_artifacts THEN "ok" ELSE "none",
                                        NoStoreArtifact)
    /\ UNCHANGED <<run_vars, log_vars, create_artifacts, issued>>

\* The process dies inside write_artifact, after open and before the file is closed.
WriteArtifactInterrupted ==
    /\ StoreCall
    /\ create_artifacts
    /\ \E run_id \in IssuedIds, kind \in StoreKinds, content \in StoreContents :
        /\ runs_directory' = store_write_artifact(runs_directory, create_artifacts, run_id,
                                                  StoreArtifact(kind, content), FALSE)
        /\ written' = Forget(written, <<run_id, kind>>)
        /\ store_result' = Returned("write_artifact", run_id, kind, "died", NoStoreArtifact)
    /\ UNCHANGED <<run_vars, log_vars, create_artifacts, issued>>

ReadArtifact ==
    /\ StoreCall
    /\ \E run_id \in IssuedIds, kind \in StoreKinds :
        LET read == store_read_artifact(runs_directory, run_id, kind)
        IN  store_result' = Returned("read_artifact", run_id, kind, read.status, read.value)
    /\ UNCHANGED <<run_vars, log_vars, runs_directory, create_artifacts, issued, written>>

WriteMetadata ==
    /\ StoreCall
    /\ \E run_id \in IssuedIds, execution_successful \in {"true"}, replayable \in BOOLEAN :
        /\ runs_directory' =
              IF replayable
              THEN store_write_metadata_replayable(runs_directory, create_artifacts, run_id,
                                                   execution_successful)
              ELSE store_write_metadata(runs_directory, create_artifacts, run_id,
                                        execution_successful)
        /\ store_result' = Returned("write_metadata", run_id, None,
                                    IF create_artifacts THEN "ok" ELSE "none",
                                    NoStoreArtifact)
    /\ UNCHANGED <<run_vars, log_vars, create_artifacts, issued, written>>

\* An emit to the event log of a run (the log is only made for a run that has a directory).
EmitToRun ==
    /\ StoreCall
    /\ \E run_id \in IssuedIds, event_type \in {"artifact_produced"} :
        /\ runs_directory[run_id].exists
        /\ runs_directory' = store_emit(runs_directory, run_id, event_type)
        /\ store_result' = Returned("emit", run_id, None, "ok", NoStoreArtifact)
    /\ UNCHANGED <<run_vars, log_vars, create_artifacts, issued, written>>

\* run_derived_pipeline with an amendment for the base run: the base metadata is
\* loaded, the amendment applied, a new run is generated and initialized, and the
\* execute_pipeline call with base_run_id raises TypeError.
DeriveRun ==
    /\ StoreCall
    /\ Len(issued) < MaxRuns
    /\ \E base_run_id \in IssuedIds, stem \in Stems :
        LET refusal == derived_run_refusal(runs_directory, base_run_id)
            run_id == generate_run_id(runs_directory, stem)
        IN  IF refusal # None
            THEN /\ store_result' = [Returned("run_derived_pipeline", NoRunId, None, refusal,
                                              NoStoreArtifact)
                                        EXCEPT !.base_run_id = base_run_id]
                 /\ UNCHANGED <<runs_directory, issued>>
            ELSE /\ runs_directory' = initialize_run(runs_directory, create_artifacts, run_id)
                 /\ issued' = Append(issued, run_id)
                 /\ store_result' = [Returned("run_derived_pipeline", run_id, None, "TypeError",
                                              NoStoreArtifact)
                                        EXCEPT !.base_run_id = base_run_id]
    /\ UNCHANGED <<run_vars, log_vars, create_artifacts, written>>

NextStore ==
    \/ DeriveRun
    \/ GenerateRunId
    \/ InitializeRun
    \/ WriteArtifact
    \/ WriteArtifactInterrupted
    \/ ReadArtifact
    \/ WriteMetadata
    \/ EmitToRun

SpecStore == InitStore /\ [][NextStore]_vars

(***************************************************************************)
(* Runs of pipelines whose first two steps are roles that                  *)
(* AGENT_ARTIFACT_MAP gives the same artifact kind.                        *)
(***************************************************************************)
SharedKindOrder == <<"developer", "plan_maker", "product_owner", "system_analyst">>

SharedKindInputsOf(choice, k) ==
    CASE choice = "pipeline_input" -> <<"pipeline_input">>
      [] choice = "previous" -> IF k > 1 THEN <<SharedKindOrder[k - 1]>>
                                         ELSE <<"pipeline_input">>
      [] choice = "later" -> <<SharedKindOrder[k + 1]>>
      [] OTHER -> IF k > 1 THEN <<"pipeline_input", SharedKindOrder[k - 1]>>
                           ELSE <<"pipeline_input">>

SharedKindConfigs ==
    UNION { { [k \in 1..n |-> [name |-> SharedKindOrder[k],
                               inputs |-> SharedKindInputsOf(c[k], k)]] :
              c \in [1..n -> SourceChoices] } : n \in 0..MaxSteps }

InitSharedKind ==
    /\ pipeline_config \in SharedKindConfigs
    /\ agent_configs = AllAgentNames
    /\ audit_config \in AuditConfigs
    /\ input_data \in PipelineInputs
    /\ store_mode = "enabled"
    /\ has_log = TRUE
    /\ faults_enabled = FALSE
    /\ baseline = NoBaseline
    /\ FreshRun
    /\ FreshLog
    /\ FreshStore

SpecSharedKind == InitSharedKind /\ [][Next]_vars

(***************************************************************************)
(* compute_content_hash applied to two payloads with the same content,     *)
(* as _build_artifact applies it when it builds the envelope.              *)
(***************************************************************************)
HashArtifactIds == {"uuid_1", "uuid_2"}

HashRunIds == {"run_1", "run_2"}

InitHash ==
    /\ pipeline_config = <<>>
    /\ agent_configs = AllAgentNames
    /\ audit_config \in {c \in AuditConfigs : c.min_confidence_to_proceed = 6}
    /\ input_data \in {d \in PipelineInputs : d.size = 200 /\ d.content = {}}
    /\ store_mode = "enabled"
    /\ has_log = TRUE
    /\ faults_enabled = FALSE
    /\ baseline = NoBaseline
    /\ FreshRun
    /\ FreshLog
    /\ runs_directory = [run_id \in RunIds |-> NoRunDirectory]
    /\ create_artifacts = TRUE
    /\ issued = <<>>
    /\ written = NoWritten
    /\ store_result = NoStoreResult
    /\ store_calls = 0
    /\ \E content \in ContentPayloads :
          \E other \in content_orders(content),
             artifact_id \in HashArtifactIds, run_id \in HashRunIds :
             call_args = << [artifact_id |-> "uuid_1", run_id |-> "run_1",
                             content |-> content],
                           [artifact_id |-> artifact_id, run_id |-> run_id,
                            content |-> other] >>
    /\ call_result = <<>>

\* _build_artifact, line 643: the next envelope gets the hash of its content.
ComputeContentHash ==
    /\ Len(call_result) < Len(call_args)
    /\ LET args == call_args[Len(call_result) + 1]
       IN  call_result' = Append(call_result,
               HashedArtifact(args.artifact_id, args.run_id, args.content))
    /\ UNCHANGED <<call_args, pipeline_config, agent_configs, audit_config, input_data,
                   store_mode, has_log, faults_enabled, pc, step_index, pipeline_agents,
                   artifacts_manifest, sufficiency_assessment, artifacts,
                   audit_results_file, event_log, uuid_counter, trace,
                   outcome, result, script, baseline, log_vars, store_vars>>

NextHash == ComputeContentHash

(***************************************************************************)
(* run_sufficiency_evaluation applied to inputs of every size around the   *)
(* threshold, with and without markers in either case.                     *)
(***************************************************************************)
SufficiencyContents == SUBSET {"TBD", "tbd", "Todo", "REQ-0001"}

SufficiencySizes == {0, 9, DefaultMinInputSize - 1, DefaultMinInputSize, 200}

SufficiencyMarkers == {{"TBD", "TODO"}, {"tbd"}, {}}

InitSufficiency ==
    /\ pipeline_config = <<>>
    /\ agent_configs = AllAgentNames
    /\ audit_config \in {c \in AuditConfigs : c.min_confidence_to_proceed = 6}
    /\ input_data \in {d \in PipelineInputs : d.size = 200 /\ d.content = {}}
    /\ store_mode = "enabled"
    /\ has_log = TRUE
    /\ faults_enabled = FALSE
    /\ baseline = NoBaseline
    /\ FreshRun
    /\ FreshLog
    /\ runs_directory = [run_id \in RunIds |-> NoRunDirectory]
    /\ create_artifacts = TRUE
    /\ issued = <<>>
    /\ written = NoWritten
    /\ store_result = NoStoreResult
    /\ store_calls = 0
    /\ \E content \in SufficiencyContents, size \in SufficiencySizes,
          markers \in SufficiencyMarkers :
          call_args = << [pipeline_input |-> [content |-> content, size |-> size],
                          min_content_size |-> DefaultMinInputSize,
                          insufficient_markers |-> markers] >>
    /\ call_result = <<>>

RunSufficiencyEvaluation ==
    /\ Len(call_result) < Len(call_args)
    /\ LET args == call_args[Len(call_result) + 1]
       IN  call_result' = Append(call_result,
               run_sufficiency_evaluation(args.pipeline_input, args.min_content_size,
                                          args.insufficient_markers))
    /\ UNCHANGED <<call_args, pipeline_config, agent_configs, audit_config, input_data,
                   store_mode, has_log, faults_enabled, pc, step_index, pipeline_agents,
                   artifacts_manifest, sufficiency_assessment, artifacts,
                   audit_results_file, event_log, uuid_counter, trace,
                   outcome, result, script, baseline, log_vars, store_vars>>

NextSufficiency == RunSufficiencyEvaluation

(***************************************************************************)
(* run_deterministic_audit applied to sets of artifact contents, called    *)
(* with the artifacts alone or with an audit_config as well.               *)
(***************************************************************************)
AuditedKinds == {"ProblemBrief", "ImplementableSpec", "WorkBreakdown",
                 "NonFunctionalRequirements", "ArchitectureDecisionRecordSet",
                 "ImplementationDesign"}

DataStructure(level, rationale) ==
    [normalization_level |-> level, denormalization_rationale |-> rationale]

AuditedContent(text, data_structures, performance_guidance) ==
    [agent_response |-> text, data_structures |-> data_structures,
     performance_guidance |-> performance_guidance, modules |-> <<>>]

\* The contents an artifact of the kind may have.
AuditedContentsOf(kind) ==
    CASE kind = "ProblemBrief" ->
            {AuditedContent({"OBJ-0001"}, <<>>, <<>>), AuditedContent({"tbd"}, <<>>, <<>>)}
      [] kind = "ImplementableSpec" ->
            {AuditedContent({"REQ-0001"}, <<>>, <<>>),
             AuditedContent({"REQ-0001", "TODO"}, <<>>, <<>>),
             AuditedContent({"REQ-001", "req-0001"}, <<>>, <<>>)}
      [] kind = "WorkBreakdown" ->
            {AuditedContent({"REQ-0001"}, <<>>, <<>>),
             AuditedContent({"TASK-0001", "OBJ-0001"}, <<>>, <<>>)}
      [] kind = "NonFunctionalRequirements" ->
            {AuditedContent({"eventual consistency"}, <<>>, <<>>),
             AuditedContent({"eventual consistency", "strong consistency"}, <<>>, <<>>)}
      [] kind = "ArchitectureDecisionRecordSet" ->
            {AuditedContent({"tradeoff"}, <<>>, <<>>)}
      [] OTHER ->
            {AuditedContent({}, <<>>, <<>>),
             AuditedContent({}, <<DataStructure("3NF", "")>>, <<"O(1)">>)}

\* The artifacts of a run: some of the kinds, each with one of its contents.
AuditedArtifacts ==
    UNION { { contents \in [kinds -> UNION { AuditedContentsOf(k) : k \in kinds }] :
                \A k \in kinds : contents[k] \in AuditedContentsOf(k) } :
            kinds \in SUBSET AuditedKinds }

\* The audit_config argument: not given, or an object with the two flags.
NoAuditConfigArgument ==
    [given |-> FALSE, require_3nf_data_structures |-> FALSE,
     require_performance_guidance |-> FALSE]

AuditConfigArguments ==
    {NoAuditConfigArgument} \cup
    [given : {TRUE}, require_3nf_data_structures : BOOLEAN,
     require_performance_guidance : BOOLEAN]

NoAuditReturned ==
    [passed |-> FALSE, errors |-> {},
     results |-> [traceability |-> {}, consistency |-> {}, completeness |-> {}]]

\* run_deterministic_audit(artifacts) takes the artifacts and nothing else.
call_run_deterministic_audit(args) ==
    IF args.audit_config.given
    THEN [status |-> "TypeError", value |-> NoAuditReturned]
    ELSE [status |-> "ok", value |-> run_deterministic_audit(args.artifacts)]

InitAudit ==
    /\ pipeline_config = <<>>
    /\ agent_configs = AllAgentNames
    /\ audit_config \in {c \in AuditConfigs : c.min_confidence_to_proceed = 6}
    /\ input_data \in {d \in PipelineInputs : d.size = 200 /\ d.content = {}}
    /\ store_mode = "enabled"
    /\ has_log = TRUE
    /\ faults_enabled = FALSE
    /\ baseline = NoBaseline
    /\ FreshRun
    /\ FreshLog
    /\ runs_directory = [run_id \in RunIds |-> NoRunDirectory]
    /\ create_artifacts = TRUE
    /\ issued = <<>>
    /\ written = NoWritten
    /\ store_result = NoStoreResult
    /\ store_calls = 0
    /\ \E audited \in AuditedArtifacts, config \in AuditConfigArguments :
          call_args = << [artifacts |-> audited, audit_config |-> config] >>
    /\ call_result = <<>>

RunDeterministicAudit ==
    /\ Len(call_result) < Len(call_args)
    /\ call_result' = Append(call_result,
                             call_run_deterministic_audit(call_args[Len(call_result) + 1]))
    /\ UNCHANGED <<call_args, pipeline_config, agent_configs, audit_config, input_data,
                   store_mode, has_log, faults_enabled, pc, step_index, pipeline_agents,
                   artifacts_manifest, sufficiency_assessment, artifacts,
                   audit_results_file, event_log, uuid_counter, trace,
                   outcome, result, script, baseline, log_vars, store_vars>>

NextAudit == RunDeterministicAudit

(***************************************************************************)
(* check_completeness applied to nested contents: strings, numbers, lists  *)
(* and dicts, with markers in leaf strings and in keys.                    *)
(***************************************************************************)
CompletenessTexts ==
    {<<"plain">>, <<"TBD", "section">>, <<"tbd", "Todo", "TBD">>, <<"mastodon">>,
     <<"to_be_defined">>}

CompletenessValues ==
    { StrLeaf(text) : text \in CompletenessTexts }
    \cup {NumLeaf}
    \cup { ListOf(<<NumLeaf, DictOf(<< <<"k", StrLeaf(text)>> >>)>>) : text \in CompletenessTexts }
    \cup { DictOf(<< <<"TBD", StrLeaf(<<"plain">>)>>, <<"notes", StrLeaf(text)>> >>) :
              text \in CompletenessTexts }

CompletenessPayloads ==
    { DictOf(items) : items \in Dicts({"a", "TODO", "c"}, CompletenessValues, MaxKeys) }

InitCompleteness ==
    /\ pipeline_config = <<>>
    /\ agent_configs = AllAgentNames
    /\ audit_config \in {c \in AuditConfigs : c.min_confidence_to_proceed = 6}
    /\ input_data \in {d \in PipelineInputs : d.size = 200 /\ d.content = {}}
    /\ store_mode = "enabled"
    /\ has_log = TRUE
    /\ faults_enabled = FALSE
    /\ baseline = NoBaseline
    /\ FreshRun
    /\ FreshLog
    /\ runs_directory = [run_id \in RunIds |-> NoRunDirectory]
    /\ create_artifacts = TRUE
    /\ issued = <<>>
    /\ written = NoWritten
    /\ store_result = NoStoreResult
    /\ store_calls = 0
    /\ \E payload \in CompletenessPayloads : call_args = <<payload>>
    /\ call_result = <<>>

CheckCompleteness ==
    /\ Len(call_result) < Len(call_args)
    /\ call_result' = Append(call_result,
                             check_completeness_payload(call_args[Len(call_result) + 1]))
    /\ UNCHANGED <<call_args, pipeline_config, agent_configs, audit_config, input_data,
                   store_mode, has_log, faults_enabled, pc, step_index, pipeline_agents,
                   artifacts_manifest, sufficiency_assessment, artifacts,
                   audit_results_file, event_log, uuid_counter, trace,
                   outcome, result, script, baseline, log_vars, store_vars>>

NextCompleteness == CheckCompleteness

(***************************************************************************)
(* build_traceability_matrix applied to the contents of a run directory:   *)
(* ids in leaf strings, ids in keys, and words that merely contain an id.  *)
(***************************************************************************)
MatrixContent(strings, keys) == [agent_response |-> strings, keys |-> keys]

MatrixContentsOf(kind) ==
    CASE kind = "ImplementableSpec" ->
            {MatrixContent({"REQ-0001"}, {}),
             MatrixContent({"REQ-0001", "REQ-0002", "OBJ-0001"}, {}),
             MatrixContent({"REQ-0001"}, {"OBJ-0001", "REQ-0002"})}
      [] kind = "ProblemBrief" ->
            {MatrixContent({"OBJ-0001"}, {}),
             MatrixContent({"OBJ-0001", "REQ-00012"}, {}),
             MatrixContent({"OBJ-0001", "REQ-0002"}, {})}
      [] kind = "WorkBreakdown" ->
            {MatrixContent({"TASK-0001", "REQ-0001"}, {}),
             MatrixContent({"TASK-0001"}, {"REQ-0002"}),
             MatrixContent({"TEST-0001"}, {})}
      [] OTHER ->
            {MatrixContent({"ADR-0001", "DES-0001", "REQ-0002"}, {})}

MatrixKinds == {"ImplementableSpec", "ProblemBrief", "WorkBreakdown",
                "ArchitectureDecisionRecordSet"}

MatrixArtifacts ==
    UNION { { contents \in [kinds -> UNION { MatrixContentsOf(k) : k \in kinds }] :
                \A k \in kinds : contents[k] \in MatrixContentsOf(k) } :
            kinds \in SUBSET MatrixKinds }

InitMatrix ==
    /\ pipeline_config = <<>>
    /\ agent_configs = AllAgentNames
    /\ audit_config \in {c \in AuditConfigs : c.min_confidence_to_proceed = 6}
    /\ input_data \in {d \in PipelineInputs : d.size = 200 /\ d.content = {}}
    /\ store_mode = "enabled"
    /\ has_log = TRUE
    /\ faults_enabled = FALSE
    /\ baseline = NoBaseline
    /\ FreshRun
    /\ FreshLog
    /\ runs_directory = [run_id \in RunIds |-> NoRunDirectory]
    /\ create_artifacts = TRUE
    /\ issued = <<>>
    /\ written = NoWritten
    /\ store_result = NoStoreResult
    /\ store_calls = 0
    /\ \E contents \in MatrixArtifacts : call_args = <<contents>>
    /\ call_result = <<>>

BuildTraceabilityMatrix ==
    /\ Len(call_result) < Len(call_args)
    /\ call_result' = Append(call_result,
                             build_traceability_matrix(call_args[Len(call_result) + 1]))
    /\ UNCHANGED <<call_args, pipeline_config, agent_configs, audit_config, input_data,
                   store_mode, has_log, faults_enabled, pc, step_index, pipeline_agents,
                   artifacts_manifest, sufficiency_assessment, artifacts,
                   audit_results_file, event_log, uuid_counter, trace,
                   outcome, result, script, baseline, log_vars, store_vars>>

NextMatrix == BuildTraceabilityMatrix

SpecMatrix == InitMatrix /\ [][NextMatrix]_vars

SpecCompleteness == InitCompleteness /\ [][NextCompleteness]_vars

SpecAudit == InitAudit /\ [][NextAudit]_vars

SpecSufficiency == InitSufficiency /\ [][NextSufficiency]_vars

SpecHash == InitHash /\ [][NextHash]_vars

(***************************************************************************)
(* The orchestrator, log and store at rest while a function is called on   *)
(* its own.                                                                *)
(***************************************************************************)
quiet_vars == <<pipeline_config, agent_configs, audit_config, input_data,
                store_mode, has_log, faults_enabled, pc, step_index, pipeline_agents,
                artifacts_manifest, sufficiency_assessment, artifacts,
                audit_results_file, event_log, uuid_counter, trace,
                outcome, result, script, baseline, log_vars>>

rest_vars == <<quiet_vars, store_vars>>

AtRest ==
    /\ pipeline_config = <<>>
    /\ agent_configs = AllAgentNames
    /\ audit_config \in {c \in AuditConfigs : c.min_confidence_to_proceed = 6}
    /\ input_data \in {d \in PipelineInputs : d.size = 200 /\ d.content = {}}
    /\ store_mode = "enabled"
    /\ has_log = TRUE
    /\ faults_enabled = FALSE
    /\ baseline = NoBaseline
    /\ FreshRun
    /\ FreshLog
    /\ runs_directory = [run_id \in RunIds |-> NoRunDirectory]
    /\ create_artifacts = TRUE
    /\ issued = <<>>
    /\ written = NoWritten
    /\ store_result = NoStoreResult
    /\ store_calls = 0

(***************************************************************************)
(* apply_amendment (agentic/orchestration/derived_run.py).  A dict is a    *)
(* function from its keys; base_metadata in the result is the caller's     *)
(* object as it is after the call.                                         *)
(***************************************************************************)
dict_get(dict, key, default) == IF key \in DOMAIN dict THEN dict[key] ELSE default

RecordedInput == [content |-> "x", source |-> "f", size |-> 1]

ReplayedInput ==
    Put(RecordedInput, "amended_context",
        [amended_assumptions |-> <<"ASM-0009">>, amended_tradeoffs |-> <<>>, reason |-> None])

BaseMetadatas ==
    {[run_id |-> "run_1"],
     [run_id |-> "run_1", pipeline_input |-> EmptyMap],
     [run_id |-> "run_1", pipeline_input |-> [source |-> "f"]],
     [run_id |-> "run_1", pipeline_input |-> RecordedInput],
     [run_id |-> "run_1", pipeline_input |-> ReplayedInput]}

\* An amendment file's fields, each present or not.
WithField(dicts, key, values) ==
    dicts \cup { Put(dict, key, value) : dict \in dicts, value \in values }

Amendments ==
    WithField(WithField(WithField({[base_run_id |-> "run_1"]},
                                  "amended_assumptions", {<<>>, <<"ASM-0001">>}),
                        "amended_tradeoffs", {<<>>, <<"TO-0001">>}),
              "reason", {"fix"})

amended_context_of(amendment) ==
    [amended_assumptions |-> dict_get(amendment, "amended_assumptions", <<>>),
     amended_tradeoffs |-> dict_get(amendment, "amended_tradeoffs", <<>>),
     reason |-> dict_get(amendment, "reason", None)]

\* An apply_amendment that writes into the mapping the base metadata holds.
apply_amendment_in_place(base_metadata, amendment) ==
    LET pipeline_input == dict_get(base_metadata, "pipeline_input", EmptyMap)
        amended_assumptions == dict_get(amendment, "amended_assumptions", <<>>)
        amended_tradeoffs == dict_get(amendment, "amended_tradeoffs", <<>>)
        amended == Put(pipeline_input, "amended_context", amended_context_of(amendment))
    IN  IF DOMAIN pipeline_input = {} \/ "content" \notin DOMAIN pipeline_input
        THEN [status |-> "ValueError", pipeline_input |-> EmptyMap,
              base_metadata |-> base_metadata]
        ELSE IF amended_assumptions # <<>> \/ amended_tradeoffs # <<>>
        THEN [status |-> "ok", pipeline_input |-> amended,
              base_metadata |-> Put(base_metadata, "pipeline_input", amended)]
        ELSE [status |-> "ok", pipeline_input |-> pipeline_input,
              base_metadata |-> base_metadata]

\* apply_amendment: a copy of the recorded input, with amended_context when
\* the amendment has an assumption or a tradeoff.
apply_amendment(base_metadata, amendment) ==
    LET pipeline_input == dict_get(base_metadata, "pipeline_input", EmptyMap)
        amended_assumptions == dict_get(amendment, "amended_assumptions", <<>>)
        amended_tradeoffs == dict_get(amendment, "amended_tradeoffs", <<>>)
    IN  IF DOMAIN pipeline_input = {} \/ "content" \notin DOMAIN pipeline_input
        THEN [status |-> "ValueError", pipeline_input |-> EmptyMap,
              base_metadata |-> base_metadata]
        ELSE IF amended_assumptions # <<>> \/ amended_tradeoffs # <<>>
        THEN [status |-> "ok",
              pipeline_input |-> Put(pipeline_input, "amended_context",
                                     amended_context_of(amendment)),
              base_metadata |-> base_metadata]
        ELSE [status |-> "ok", pipeline_input |-> pipeline_input,
              base_metadata |-> base_metadata]

InitAmendment ==
    /\ AtRest
    /\ \E base_metadata \in BaseMetadatas, amendment \in Amendments :
          call_args = <<[base_metadata |-> base_metadata, amendment |-> amendment]>>
    /\ call_result = <<>>

ApplyAmendment ==
    /\ Len(call_result) < Len(call_args)
    /\ LET args == call_args[Len(call_result) + 1]
       IN  call_result' = Append(call_result,
                                 apply_amendment(args.base_metadata, args.amendment))
    /\ UNCHANGED <<call_args, rest_vars>>

NextAmendment == ApplyAmendment

SpecAmendment == InitAmendment /\ [][NextAmendment]_vars

(***************************************************************************)
(* run_derived_pipeline (agentic/orchestration/derived_run.py) on a runs   *)
(* directory that holds a base run.  A metadata.json is the dict it was    *)
(* dumped from; an amendment file is present or not and holds a dict.      *)
(***************************************************************************)
BaseRunId == <<"20260101_000000_0a1b2c3d", 0>>
OtherRunId == <<"20260101_000001_4e5f6a7b", 0>>

\* The parameters Orchestrator.execute_pipeline declares, and the keywords
\* run_derived_pipeline calls it with.
execute_pipeline_parameters ==
    {"input_data", "run_id", "artifact_store", "collaboration_event_log"}

execute_pipeline_keywords ==
    {"input_data", "run_id", "artifact_store", "collaboration_event_log", "base_run_id"}

\* The parameters ArtifactStore.write_metadata declares, and the keywords
\* run_derived_pipeline calls it with.
write_metadata_parameters ==
    {"run_id", "config_root", "input_file", "pipeline_name", "execution_successful",
     "total_execution_time", "artifacts_manifest"}

write_metadata_keywords ==
    {"run_id", "config_root", "input_file", "pipeline_name", "execution_successful",
     "total_execution_time", "artifacts_manifest", "pipeline_input", "base_run_id"}

\* A Python call binds when every keyword names a parameter; TypeError otherwise.
binds(keywords, parameters) == keywords \subseteq parameters

\* A base run directory as test_derived_run.py makes it: initialize_run, then a
\* metadata.json dumped into it.
BaseRunDirectory(metadata) ==
    [exists |-> TRUE, dirs |-> {"artifacts", "collaboration"},
     files |-> Put(NoFiles, MetadataFile, metadata)]

BaseRunDirectories ==
    {[exists |-> TRUE, dirs |-> {"artifacts", "collaboration"}, files |-> NoFiles],
     BaseRunDirectory([run_id |-> BaseRunId]),
     BaseRunDirectory([run_id |-> BaseRunId, pipeline_input |-> RecordedInput])}

AmendmentFiles ==
    {[present |-> FALSE, data |-> EmptyMap],
     [present |-> TRUE, data |-> [amended_assumptions |-> <<"ASM-0001">>]],
     [present |-> TRUE, data |-> [base_run_id |-> BaseRunId]],
     [present |-> TRUE,
      data |-> [base_run_id |-> BaseRunId, amended_assumptions |-> <<"ASM-0001">>,
                reason |-> "fix"]],
     [present |-> TRUE,
      data |-> [base_run_id |-> OtherRunId, amended_assumptions |-> <<"ASM-0001">>,
                reason |-> "fix"]]}

\* run_derived_pipeline raising before it has a run id.
Refused(directory, status, calls) ==
    [status |-> status, run_id |-> NoRunId, directory |-> directory, calls |-> calls,
     pipeline_input |-> EmptyMap, orchestrator_ran |-> FALSE,
     artifact_base_run_id |-> NoRunId]

\* Lines 89-126: the amended input, a new run, the orchestrator, the metadata.
replay(directory, enabled, base_run_id, base_metadata, amendment, stem, calls) ==
    LET applied == apply_amendment(base_metadata, amendment)
        run_id == generate_run_id(directory, stem)
        initialized == initialize_run(directory, enabled, run_id)
        started == calls \o <<"apply_amendment", "generate_run_id", "initialize_run">>
        metadata == [run_id |-> run_id, execution_successful |-> TRUE,
                     pipeline_input |-> applied.pipeline_input,
                     base_run_id |-> base_run_id]
    IN  IF applied.status # "ok"
        THEN Refused(directory, applied.status, calls \o <<"apply_amendment">>)
        ELSE IF ~binds(execute_pipeline_keywords, execute_pipeline_parameters)
        THEN [status |-> "TypeError", run_id |-> run_id, directory |-> initialized,
              calls |-> started, pipeline_input |-> applied.pipeline_input,
              orchestrator_ran |-> FALSE, artifact_base_run_id |-> NoRunId]
        ELSE IF enabled /\ ~binds(write_metadata_keywords, write_metadata_parameters)
        THEN [status |-> "TypeError", run_id |-> run_id, directory |-> initialized,
              calls |-> started \o <<"execute_pipeline">>,
              pipeline_input |-> applied.pipeline_input,
              orchestrator_ran |-> TRUE, artifact_base_run_id |-> NoRunId]
        ELSE [status |-> "ok", run_id |-> run_id,
              directory |->
                  IF enabled
                  THEN [initialized EXCEPT ![run_id].files = Put(@, MetadataFile, metadata)]
                  ELSE initialized,
              calls |-> started \o <<"execute_pipeline">>
                            \o (IF enabled THEN <<"write_metadata">> ELSE <<>>),
              pipeline_input |-> applied.pipeline_input,
              orchestrator_ran |-> TRUE, artifact_base_run_id |-> NoRunId]

\* A run_derived_pipeline that does not compare the amendment's base_run_id.
run_derived_pipeline_unvalidated(directory, enabled, base_run_id, amendment_file, stem) ==
    LET files == directory[base_run_id].files
        loaded == <<"load_base_run_metadata", "load_amendment">>
    IN  IF MetadataFile \notin DOMAIN files
        THEN Refused(directory, "FileNotFoundError", <<"load_base_run_metadata">>)
        ELSE IF ~amendment_file.present
        THEN Refused(directory, "FileNotFoundError", loaded)
        ELSE IF "base_run_id" \notin DOMAIN amendment_file.data
        THEN Refused(directory, "ValueError", loaded)
        ELSE replay(directory, enabled, base_run_id, files[MetadataFile],
                    amendment_file.data, stem, loaded)

\* run_derived_pipeline, lines 68-126.
run_derived_pipeline(directory, enabled, base_run_id, amendment_file, stem) ==
    LET files == directory[base_run_id].files
        loaded == <<"load_base_run_metadata", "load_amendment">>
    IN  IF MetadataFile \notin DOMAIN files
        THEN Refused(directory, "FileNotFoundError", <<"load_base_run_metadata">>)
        ELSE IF ~amendment_file.present
        THEN Refused(directory, "FileNotFoundError", loaded)
        ELSE IF "base_run_id" \notin DOMAIN amendment_file.data
        THEN Refused(directory, "ValueError", loaded)
        ELSE IF amendment_file.data.base_run_id # base_run_id
        THEN Refused(directory, "ValueError", loaded)
        ELSE replay(directory, enabled, base_run_id, files[MetadataFile],
                    amendment_file.data, stem, loaded)

InitDerived ==
    /\ pipeline_config = <<>>
    /\ agent_configs = AllAgentNames
    /\ audit_config \in {c \in AuditConfigs : c.min_confidence_to_proceed = 6}
    /\ input_data \in {d \in PipelineInputs : d.size = 200 /\ d.content = {}}
    /\ store_mode = "enabled"
    /\ has_log = TRUE
    /\ faults_enabled = FALSE
    /\ baseline = NoBaseline
    /\ FreshRun
    /\ FreshLog
    /\ \E base \in BaseRunDirectories :
          runs_directory = [run_id \in RunIds |->
                               IF run_id = BaseRunId THEN base ELSE NoRunDirectory]
    /\ create_artifacts \in BOOLEAN
    /\ issued = <<>>
    /\ written = <<>>
    /\ store_result = NoStoreResult
    /\ store_calls = 0
    /\ call_args = <<>>
    /\ call_result = <<>>

\* One call of run_derived_pipeline; `written` keeps the replays that got a run id.
RunDerivedPipeline ==
    /\ Len(issued) < MaxRuns
    /\ \E base_run_id \in {BaseRunId, OtherRunId}, amendment_file \in AmendmentFiles,
          stem \in Stems :
        LET returned == run_derived_pipeline(runs_directory, create_artifacts, base_run_id,
                                             amendment_file, stem)
            began == returned.run_id # NoRunId
        IN  /\ runs_directory' = returned.directory
            /\ issued' = IF began THEN Append(issued, returned.run_id) ELSE issued
            /\ written' = IF began
                          THEN Append(written, [run_id |-> returned.run_id,
                                                base_run_id |-> base_run_id,
                                                amendment_file |-> amendment_file,
                                                status |-> returned.status])
                          ELSE written
            /\ store_result' = [Returned("run_derived_pipeline", returned.run_id, None,
                                         returned.status, NoStoreArtifact)
                                   EXCEPT !.base_run_id = base_run_id]
            /\ call_args' = <<[base_run_id |-> base_run_id,
                               amendment_file |-> amendment_file]>>
            /\ call_result' = <<[calls |-> returned.calls,
                                 orchestrator_ran |-> returned.orchestrator_ran,
                                 artifact_base_run_id |-> returned.artifact_base_run_id]>>
    /\ UNCHANGED <<quiet_vars, create_artifacts, store_calls>>

NextDerived == RunDerivedPipeline

SpecDerived == InitDerived /\ [][NextDerived]_vars

(***************************************************************************)
(* invoke_with_rate_limit_retry (agentic/runtime/rate_limit.py): the       *)
(* tenacity loop retry(retry_if_exception(_should_retry),                  *)
(* stop_after_attempt(max_retries), reraise=True) around a callable whose  *)
(* outcome at each attempt is an input.  An exception is what the          *)
(* predicate reads of it: status_code and response.status_code, 0 when     *)
(* the attribute is absent.                                                *)
(***************************************************************************)
NoError == [status_code |-> 0, response_status_code |-> 0, raised |-> FALSE]

RaisedErrors ==
    [status_code : {0, RateLimitStatus, 500},
     response_status_code : {0, RateLimitStatus},
     raised : {TRUE}]

is_rate_limit_error(exc) ==
    \/ exc.status_code = RateLimitStatus
    \/ exc.response_status_code = RateLimitStatus

should_retry(exc) == is_rate_limit_error(exc)

\* A stop condition that allows one attempt more.
stop_after_attempt_exceeded(attempt_number, max_attempt_number) ==
    attempt_number > max_attempt_number

\* tenacity.stop_after_attempt(max_retries) at the end of attempt attempt_number.
stop_after_attempt(attempt_number, max_attempt_number) ==
    attempt_number >= max_attempt_number

RetryState(attempt_number, calls, errors, status, surfaced) ==
    [attempt_number |-> attempt_number, calls |-> calls, errors |-> errors,
     status |-> status, surfaced |-> surfaced]

InitRetry ==
    /\ AtRest
    /\ \E max_retries \in 0..MaxRetries : call_args = <<[max_retries |-> max_retries]>>
    /\ call_result = <<RetryState(1, 0, <<>>, "attempting", NoError)>>

\* An attempt in which func returns: wrapped returns its value.
AttemptReturns ==
    /\ call_result[1].status = "attempting"
    /\ call_result' = <<[call_result[1] EXCEPT !.calls = @ + 1, !.status = "returned"]>>
    /\ UNCHANGED <<call_args, rest_vars>>

\* An attempt in which func raises: re-raised when it is not a rate-limit error or
\* when the attempts are used up, another attempt after the wait otherwise.
AttemptRaises ==
    /\ call_result[1].status = "attempting"
    /\ \E exc \in RaisedErrors :
        LET state == call_result[1]
            errors == Append(state.errors, exc)
        IN  call_result' =
                IF ~should_retry(exc)
                   \/ stop_after_attempt(state.attempt_number, call_args[1].max_retries)
                THEN <<RetryState(state.attempt_number, state.calls + 1, errors,
                                  "raised", exc)>>
                ELSE <<RetryState(state.attempt_number + 1, state.calls + 1, errors,
                                  "attempting", NoError)>>
    /\ UNCHANGED <<call_args, rest_vars>>

NextRetry == AttemptReturns \/ AttemptRaises

SpecRetry == InitRetry /\ [][NextRetry]_vars

(***************************************************************************)
(* One agent step with its prompt templates (Orchestrator._execute_agent   *)
(* and the loop body that stores its result).  prompts_config holds no     *)
(* prompt_templates, a string, or a dict of named templates in insertion   *)
(* order; the step's own prompt_templates is absent, a name or a list of   *)
(* names.                                                                  *)
(***************************************************************************)
NoTemplates == [kind |-> "none", text |-> "", named |-> <<>>]
UnnamedTemplate(text) == [kind |-> "str", text |-> text, named |-> <<>>]
NamedTemplates(named) == [kind |-> "dict", text |-> "", named |-> named]

TemplateContent(name) == <<"content of", name>>

PromptsConfigs ==
    {NoTemplates, UnnamedTemplate(""), UnnamedTemplate("unnamed text")}
    \cup { NamedTemplates([k \in 1..Len(names) |-> <<names[k], TemplateContent(names[k])>>]) :
             names \in {<<>>, <<"a">>, <<"a", "b">>, <<"b", "a">>} }

StepTemplateChoices ==
    {[kind |-> "none", name |-> "", names |-> <<>>],
     [kind |-> "str", name |-> "", names |-> <<>>],
     [kind |-> "str", name |-> "a", names |-> <<>>],
     [kind |-> "str", name |-> "c", names |-> <<>>],
     [kind |-> "list", name |-> "", names |-> <<>>],
     [kind |-> "list", name |-> "", names |-> <<"a">>],
     [kind |-> "list", name |-> "", names |-> <<"b", "a">>],
     [kind |-> "list", name |-> "", names |-> <<"a", "c">>]}

\* PipelineAgentConfig.get_template_names.
get_template_names(prompt_templates, available_templates) ==
    IF \/ prompt_templates.kind = "none"
       \/ (prompt_templates.kind = "str" /\ prompt_templates.name = "")
       \/ (prompt_templates.kind = "list" /\ prompt_templates.names = <<>>)
    THEN available_templates
    ELSE IF prompt_templates.kind = "str" THEN <<prompt_templates.name>>
    ELSE prompt_templates.names

\* prompts_config.prompt_templates[template_name] of a dict.
template_of(named, template_name) ==
    LET k == CHOOSE k \in 1..Len(named) : named[k][1] = template_name
    IN  named[k][2]

\* What _execute_agent returns and the _execute_template calls it made.
Executed(all_templates, prompt_templates_used) ==
    [status |-> "ok",
     invocations |-> <<all_templates>>,
     agent_output |-> [output |-> "response",
                       metadata |-> [prompt_templates_used |-> prompt_templates_used,
                                     prompt_templates_count |-> Len(all_templates)]]]

\* Orchestrator._execute_agent.
execute_agent(prompts_config, agent_config) ==
    LET available_templates == [k \in 1..Len(prompts_config.named) |-> prompts_config.named[k][1]]
        template_names == get_template_names(agent_config, available_templates)
    IN  CASE prompts_config.kind = "none" -> Executed(<<>>, <<>>)
          [] prompts_config.kind = "str" ->
                Executed(<<prompts_config.text>>, <<"unnamed_template">>)
          [] prompts_config.kind = "dict" ->
                IF \E k \in 1..Len(template_names) :
                      \A n \in 1..Len(available_templates) :
                          available_templates[n] # template_names[k]
                THEN [status |-> "KeyError", invocations |-> <<>>,
                      agent_output |-> [output |-> "None",
                                        metadata |-> [prompt_templates_used |-> <<>>,
                                                      prompt_templates_count |-> 0]]]
                ELSE Executed([k \in 1..Len(template_names) |->
                                  template_of(prompts_config.named, template_names[k])],
                              template_names)

\* Loop body, lines 246-266: what the step keeps of the agent output.
step_record(agent_output) ==
    [output |-> agent_output.output,
     metadata |-> [prompt_templates_used |->
                      dict_get(agent_output, "prompt_templates_used", <<>>)]]

InitTemplates ==
    /\ AtRest
    /\ \E prompts_config \in PromptsConfigs, agent_config \in StepTemplateChoices :
          call_args = <<[prompts_config |-> prompts_config, agent_config |-> agent_config]>>
    /\ call_result = <<>>

ExecuteAgentStep ==
    /\ Len(call_result) < Len(call_args)
    /\ LET args == call_args[Len(call_result) + 1]
           executed == execute_agent(args.prompts_config, args.agent_config)
       IN  call_result' = Append(call_result,
                                 [status |-> executed.status,
                                  invocations |-> executed.invocations,
                                  agent_output |-> executed.agent_output,
                                  step |-> step_record(executed.agent_output)])
    /\ UNCHANGED <<call_args, rest_vars>>

NextTemplates == ExecuteAgentStep

SpecTemplates == InitTemplates /\ [][NextTemplates]_vars

(***************************************************************************)
(* _prepare_agent_input on its own: a pipeline input, the outputs of the   *)
(* steps that have run, and a step's declared sources.                     *)
(***************************************************************************)
InputSourceNames == {"pipeline_input", RoleOrder[1], RoleOrder[2]}

DeclaredInputs == UNION { [1..n -> InputSourceNames] : n \in 0..MaxSteps }

StepOutputs == { execute_template(behaviour) : behaviour \in AgentBehaviours }

AgentsSoFar ==
    UNION { [names -> StepOutputs] : names \in SUBSET {RoleOrder[1], RoleOrder[2]} }

InitInput ==
    /\ AtRest
    /\ \E inputs \in DeclaredInputs, agents \in AgentsSoFar,
          pipeline_input \in PipelineInputs :
          call_args = <<[pipeline_input |-> pipeline_input, agents |-> agents,
                         agent_config |-> [name |-> RoleOrder[3], inputs |-> inputs]]>>
    /\ call_result = <<>>

PrepareAgentInput ==
    /\ Len(call_result) < Len(call_args)
    /\ LET args == call_args[Len(call_result) + 1]
       IN  call_result' = Append(call_result,
                                 prepare_agent_input(args.pipeline_input, args.agents,
                                                     args.agent_config))
    /\ UNCHANGED <<call_args, rest_vars>>

NextInput == PrepareAgentInput

SpecInput == InitInput /\ [][NextInput]_vars

(***************************************************************************)
(* Two runs of the same call: a reference run in which every emit          *)
(* succeeds, then the same configuration, input and provider behaviour     *)
(* with emits that may raise.                                              *)
(***************************************************************************)
IsInvoke(entry) == entry.op = "invoke"
IsEmit(entry) == entry.op = "emit"
IsOkEmit(entry) == entry.op = "emit" /\ entry.ok
IsFailedEmit(entry) == entry.op = "emit" /\ ~entry.ok
NotEmit(entry) == entry.op # "emit"

InitPair ==
    /\ RunSetup
    /\ faults_enabled = FALSE
    /\ baseline = NoBaseline
    /\ FreshRun
    /\ FreshLog
    /\ FreshStore

\* The reference run is over: its observables are kept and the call is made again.
Restart ==
    /\ pc = "done"
    /\ ~baseline.taken
    /\ baseline' = [taken |-> TRUE,
                    script |-> script,
                    trace |-> SelectSeq(trace, NotEmit),
                    artifacts |-> artifacts,
                    audit_results_file |-> audit_results_file,
                    outcome |-> outcome,
                    result |-> result]
    /\ faults_enabled' = TRUE
    /\ pc' = "new"
    /\ step_index' = 0
    /\ pipeline_agents' = EmptyMap
    /\ artifacts_manifest' = <<>>
    /\ sufficiency_assessment' = NoAssessment
    /\ artifacts' = EmptyMap
    /\ audit_results_file' = NoAuditFile
    /\ event_log' = <<>>
    /\ uuid_counter' = 0
    /\ trace' = <<>>
    /\ outcome' = "running"
    /\ result' = NoResult
    /\ script' = <<>>
    /\ UNCHANGED <<pipeline_config, agent_configs, audit_config, input_data, store_mode,
                   has_log, log_vars, store_vars, call_vars>>

NextPair == Next \/ Restart

SpecPair == InitPair /\ [][NextPair]_vars

(***************************************************************************)
(* Properties.                                                             *)
(***************************************************************************)

Invocations(tr) == SelectSeq(tr, IsInvoke)
NumInvoked(tr) == Len(Invocations(tr))

\* What the sufficiency evaluation yields for the input of this run.
ExpectedAssessment ==
    run_sufficiency_evaluation(input_data, audit_config.min_input_size_for_sufficiency,
                               audit_config.insufficient_markers)

InputBelowThreshold ==
    ExpectedAssessment.confidence_score < audit_config.min_confidence_to_proceed

ReturnedBlocked == pc = "done" /\ outcome = "returned" /\ ~result.execution_successful
ReturnedSuccess == pc = "done" /\ outcome = "returned" /\ result.execution_successful

OpsOf(tr) == [j \in 1..Len(tr) |-> <<tr[j].op, tr[j].what>>]
EventTypes(log) == [j \in 1..Len(log) |-> log[j].event_type]
OkEmitTypes(tr) == LET oks == SelectSeq(tr, IsOkEmit) IN [j \in 1..Len(oks) |-> oks[j].what]

StepArtifactOnDisk(j) ==
    LET name == pipeline_config[j].name
        kind == AGENT_ARTIFACT_MAP(name)
    IN  /\ kind \in DOMAIN artifacts
        /\ artifacts[kind].created_by_role = name
        /\ artifacts[kind].content = pipeline_agents[name]

\* Steps are invoked one per step of the run, in the configured order.
InvokedInConfiguredOrder ==
    /\ NumInvoked(trace') <= NumInvoked(trace) + 1
    /\ NumInvoked(trace') <= Len(pipeline_config)
    /\ \A j \in 1..NumInvoked(trace') : Invocations(trace')[j].who = pipeline_config[j].name

\* C3 as stated: steps are invoked one at a time in the configured order, and
\* whenever the agent of step k+1 is invoked the artifact of step k is in the
\* artifact store.
C3_PreviousArtifactPersisted ==
    [][ NumInvoked(trace') > NumInvoked(trace) =>
            /\ InvokedInConfiguredOrder
            /\ (NumInvoked(trace) >= 1 => StepArtifactOnDisk(NumInvoked(trace))) ]_vars

\* C3 amended: the same, the artifact being required only of a run that was
\* given a persisting artifact store.
C3_PreviousArtifactPersistedWithStore ==
    [][ NumInvoked(trace') > NumInvoked(trace) =>
            /\ InvokedInConfiguredOrder
            /\ (store_mode = "enabled" /\ NumInvoked(trace) >= 1 =>
                    StepArtifactOnDisk(NumInvoked(trace))) ]_vars

C3_Witness ==
    /\ store_mode = "enabled"
    /\ NumInvoked(trace) = 2
    /\ StepArtifactOnDisk(1)

\* Some step declares as input source a step configured after it.
HasForwardReference(config) ==
    \E k \in 1..Len(config) : \E m \in 1..Len(config[k].inputs) :
        \E j \in (k + 1)..Len(config) : config[j].name = config[k].inputs[m]

\* C4: a configuration with a forward reference is rejected before execution:
\* no agent is invoked, no artifact is written, the run ends as a rejected
\* configuration.
C4_ForwardReferenceRejected ==
    HasForwardReference(pipeline_config) =>
        /\ NumInvoked(trace) = 0
        /\ DOMAIN artifacts = {}
        /\ (pc = "done" => outcome = "ConfigRejected")

\* C5: once the agent execution of a step has failed, no further step is
\* invoked and the run ends with PipelineError.
C5_AgentFailureAborts ==
    \A j \in 1..Len(trace) :
        (trace[j].op = "invoke" /\ ~trace[j].ok) =>
            /\ \A j2 \in (j + 1)..Len(trace) : trace[j2].op # "invoke"
            /\ (pc = "done" => outcome = "PipelineError")

\* The post-execution deterministic audit of the current run directory fails.
AuditAboutToFail ==
    /\ pc = "audit"
    /\ store_mode # "none"
    /\ ~run_deterministic_audit(collect_artifact_contents(artifacts)).passed

C8_EmitFailuresDoNotChangeRun ==
    (pc = "done" /\ baseline.taken) =>
        /\ SelectSeq(trace, NotEmit) = baseline.trace
        /\ script = baseline.script
        /\ artifacts = baseline.artifacts
        /\ audit_results_file = baseline.audit_results_file
        /\ outcome = baseline.outcome
        /\ result = baseline.result

C8_Witness ==
    /\ pc = "done"
    /\ baseline.taken
    /\ Len(SelectSeq(trace, IsFailedEmit)) >= 2
    /\ NumInvoked(trace) = 2
    /\ outcome = "returned"
    /\ result.execution_successful
    /\ DOMAIN artifacts # {}

IsPrefix(s, t) == Len(s) <= Len(t) /\ SubSeq(t, 1, Len(s)) = s

\* C9: after any sequence of emits to one log, read_all returns exactly the
\* emitted events, in insertion order, each with every field equal to the
\* value that was emitted.
C9_ReadAllRoundTrips ==
    (events_read.done /\ crashed_at = "none") =>
        /\ events_read.ok
        /\ events_read.events = emitted

C9_Witness ==
    /\ events_read.done
    /\ crashed_at = "none"
    /\ Len(emitted) = 2
    /\ emitted[1] # emitted[2]
    /\ \E k \in 1..2 : NEWLINE \in { emitted[k].summary[j] : j \in 1..Len(emitted[k].summary) }
    /\ \E k \in 1..2 : emitted[k].content_ref.present

\* C10: the log only grows at its end: every step leaves the file, and the
\* events read from it, a prefix of what they are after the step; and after a
\* crash between two emits the file holds exactly the events of the emits that
\* had returned.
C10_AppendOnly ==
    [][/\ IsPrefix(events_file, events_file')
       /\ IsPrefix(read_all(events_file).events, read_all(events_file').events)
       /\ (log_pc' = "crashed" /\ crashed_at' = "idle") =>
              (read_all(events_file').ok /\ read_all(events_file').events = emitted')
       /\ (log_pc' = "crashed") =>
              /\ read_all(events_file').ok
              /\ read_all(events_file').events
                    \in {emitted', Append(emitted', pending_event')}]_vars

C10_Witness ==
    /\ log_pc = "crashed"
    /\ crashed_at = "idle"
    /\ Len(emitted) = 2
    /\ events_read.done
    /\ events_read.events = emitted

ReadOf(run_id, kind) == store_read_artifact(runs_directory, run_id, kind)

\* C11: read_artifact returns the artifact of the most recent write_artifact of
\* its kind in its run, with the content and content_hash that was written,
\* and a write_artifact leaves what is stored of every other run and kind as
\* it was.
C11_LastWriteWins ==
    [][/\ \A key \in DOMAIN written' :
            LET read == store_read_artifact(runs_directory', key[1], key[2])
                last == written'[key][Len(written'[key])]
            IN  /\ read.status = "ok"
                /\ read.value = last
       /\ (store_result'.op = "read_artifact"
           /\ <<store_result'.run_id, store_result'.kind>> \in DOMAIN written) =>
              LET history == written[<<store_result'.run_id, store_result'.kind>>]
              IN  /\ store_result'.status = "ok"
                  /\ store_result'.value.content = history[Len(history)].content
                  /\ store_result'.value.content_hash = history[Len(history)].content_hash
       /\ store_result'.op = "write_artifact" =>
              \A run_id \in RunIds, kind \in StoreKinds :
                  <<run_id, kind>> # <<store_result'.run_id, store_result'.kind>> =>
                      store_read_artifact(runs_directory', run_id, kind)
                          = store_read_artifact(runs_directory, run_id, kind)]_vars

C11_Witness ==
    /\ store_result.op = "read_artifact"
    /\ store_result.status = "ok"
    /\ LET key == <<store_result.run_id, store_result.kind>>
       IN  /\ key \in DOMAIN written
           /\ Len(written[key]) >= 2
           /\ written[key][1].content # written[key][2].content
           /\ store_result.value = written[key][2]
           /\ \E other \in DOMAIN written : other # key /\ other[1] = key[1]

C13_RunsIsolated ==
    [][/\ \A run_id \in RunIds :
            run_id # store_result'.run_id => runs_directory'[run_id] = runs_directory[run_id]
       /\ store_result'.op = "run_derived_pipeline" =>
            /\ store_result'.run_id # store_result'.base_run_id
            /\ runs_directory'[store_result'.base_run_id]
                  = runs_directory[store_result'.base_run_id]]_vars

C13_Witness ==
    /\ store_result.op = "run_derived_pipeline"
    /\ store_result.status = "TypeError"
    /\ store_result.run_id[1] = store_result.base_run_id[1]
    /\ runs_directory[store_result.run_id].exists
    /\ ArtifactFile("ProblemBrief") \in DOMAIN runs_directory[store_result.base_run_id].files
    /\ EventsFile \in DOMAIN runs_directory[store_result.base_run_id].files

\* C14: the id generate_run_id returns names no run directory that exists,
\* and no two of the ids it has returned are the same.
C14_RunIdsCollisionFree ==
    /\ store_result.op = "generate_run_id" => ~runs_directory[store_result.run_id].exists
    /\ \A i, j \in 1..Len(issued) : i # j => issued[i] # issued[j]

\* C15: initialize_run leaves the run with its artifacts/ and collaboration/
\* directories and with every file it had, calling it again changes nothing
\* more, and no other run is touched; with persistence disabled it creates
\* nothing and returns nothing.
C15_InitializeRunIdempotent ==
    [][store_result'.op = "initialize_run" =>
        LET run_id == store_result'.run_id
        IN  IF create_artifacts
            THEN /\ store_result'.status = "ok"
                 /\ runs_directory'[run_id].exists
                 /\ runs_directory'[run_id].dirs = {"artifacts", "collaboration"}
                 /\ runs_directory'[run_id].files = runs_directory[run_id].files
                 /\ initialize_run(runs_directory', create_artifacts, run_id) = runs_directory'
                 /\ runs_directory[run_id].dirs = {"artifacts", "collaboration"} =>
                        runs_directory' = runs_directory
            ELSE /\ store_result'.status = "none"
                 /\ runs_directory' = runs_directory]_vars

C15_Witness ==
    /\ store_result.op = "initialize_run"
    /\ store_result.status = "ok"
    /\ create_artifacts
    /\ ArtifactFile("ProblemBrief") \in DOMAIN runs_directory[store_result.run_id].files
    /\ MetadataFile \in DOMAIN runs_directory[store_result.run_id].files
    /\ store_calls >= 4

\* C16: read_artifact raises a not-found error when the run has no file of the
\* kind and a format error when the file is not the text of an envelope; it
\* then returns no artifact, and it never changes what is stored.
C16_ReadArtifactErrors ==
    [][store_result'.op = "read_artifact" =>
        LET files == runs_directory[store_result'.run_id].files
            path == ArtifactFile(store_result'.kind)
            envelopes == { json_dump_artifact(StoreArtifact(kind, content)) :
                             kind \in StoreKinds, content \in StoreContents }
        IN  /\ runs_directory' = runs_directory
            /\ path \notin DOMAIN files =>
                  /\ store_result'.status = "FileNotFoundError"
                  /\ store_result'.value = NoStoreArtifact
            /\ (path \in DOMAIN files /\ files[path] \notin envelopes) =>
                  /\ store_result'.status \in {"JSONDecodeError", "ValidationError"}
                  /\ store_result'.value = NoStoreArtifact]_vars

C16_Witness ==
    /\ store_result.op = "read_artifact"
    /\ store_result.status = "JSONDecodeError"
    /\ store_result.value = NoStoreArtifact
    /\ \E kind \in StoreKinds :
          /\ kind # store_result.kind
          /\ ArtifactFile(kind) \notin DOMAIN runs_directory[store_result.run_id].files

\* Python dict equality: the items as a mapping from key to value, whatever
\* the order they were inserted in.
as_mapping(dict) ==
    [key \in { dict[i][1] : i \in 1..Len(dict) } |->
        LET value == dict[CHOOSE i \in 1..Len(dict) : dict[i][1] = key][2]
        IN  IF value[1] = "atom" THEN value
            ELSE Object([k \in { value[2][i][1] : i \in 1..Len(value[2]) } |->
                           value[2][CHOOSE i \in 1..Len(value[2]) : value[2][i][1] = k][2]])]

\* C17: two payloads that are equal as mappings, whatever the order of their
\* keys at either level and whatever artifact and run they belong to, get the
\* same hash, and every hash starts with "sha256:".
C17_HashKeyOrderIndependent ==
    /\ \A i \in 1..Len(call_result) : call_result[i].content_hash[1] = "sha256:"
    /\ \A i, j \in 1..Len(call_result) :
          as_mapping(call_result[i].content) = as_mapping(call_result[j].content) =>
              call_result[i].content_hash = call_result[j].content_hash

C17_Witness ==
    /\ Len(call_result) = 2
    /\ call_result[1].content # call_result[2].content
    /\ Len(call_result[1].content) = 2
    /\ call_result[1].content[1][1] = call_result[2].content[2][1]
    /\ \E i \in 1..2 : /\ call_result[1].content[i][2][1] = "object"
                       /\ Len(call_result[1].content[i][2][2]) = 2
                       /\ call_result[1].content[i][2] \notin
                              { call_result[2].content[k][2] : k \in 1..2 }
    /\ call_result[1].artifact_id # call_result[2].artifact_id
    /\ call_result[1].run_id # call_result[2].run_id
    /\ as_mapping(call_result[1].content) = as_mapping(call_result[2].content)

\* The markers of the configuration that occur in the content in any case.
MarkersOccurring(args) ==
    { marker \in args.insufficient_markers :
        \E token \in args.pipeline_input.content : upper(token) = upper(marker) }

\* C18: the evaluation starts at 1.0, takes off 0.5 and adds one gap when the
\* size is below the threshold, takes off 0.3 and adds one gap listing the
\* markers when a marker occurs in any case, and stays within [0, 1]; a short
\* input with a marker gets at most 0.2 and exactly two gaps, an ample input
\* without markers gets 1.0 and no gap.
C18_SufficiencyScore ==
    \A i \in 1..Len(call_result) :
        LET args == call_args[i]
            assessment == call_result[i]
            short == args.pipeline_input.size < args.min_content_size
            marked == MarkersOccurring(args) # {}
            gaps == assessment.blocking_gaps
        IN  /\ assessment.confidence_score =
                  10 - (IF short THEN 5 ELSE 0) - (IF marked THEN 3 ELSE 0)
            /\ assessment.confidence_score \in 0..10
            /\ Len(gaps) = (IF short THEN 1 ELSE 0) + (IF marked THEN 1 ELSE 0)
            /\ short => gaps[1].area = "scope"
            /\ marked => /\ gaps[Len(gaps)].area = "unknowns"
                         /\ gaps[Len(gaps)].markers = MarkersOccurring(args)
            /\ (short /\ marked) => (assessment.confidence_score <= 2 /\ Len(gaps) = 2)
            /\ (~short /\ ~marked) => (assessment.confidence_score = 10 /\ gaps = <<>>)

C18_Witness ==
    /\ Len(call_result) = 1
    /\ call_args[1].pipeline_input.size = DefaultMinInputSize - 1
    /\ call_args[1].pipeline_input.content = {"tbd", "REQ-0001"}
    /\ call_args[1].insufficient_markers = {"TBD", "TODO"}
    /\ call_result[1].confidence_score = 2
    /\ Len(call_result[1].blocking_gaps) = 2
    /\ call_result[1].blocking_gaps[2].markers = {"TBD"}

\* The errors the three checks report for a set of artifact contents, each
\* as the combined list words it.
ErrorsOfChecks(contents) ==
    { <<"traceability", "", e>> : e \in check_traceability(contents) }
    \cup { <<"consistency", e[1], e[2]>> : e \in check_consistency(contents) }
    \cup UNION { { <<"completeness", kind, marker>> :
                     marker \in check_completeness(contents[kind]) } :
                 kind \in DOMAIN contents }

\* C19: the audit passes exactly when its combined error list is empty, and
\* every error of every check is in that list (and nothing else is).
C19_PassedIffNoErrors ==
    \A i \in 1..Len(call_result) :
        call_result[i].status = "ok" =>
            LET audit == call_result[i].value
            IN  /\ audit.passed <=> (audit.errors = {})
                /\ ErrorsOfChecks(call_args[i].artifacts) \subseteq audit.errors
                /\ audit.errors \subseteq ErrorsOfChecks(call_args[i].artifacts)
                /\ audit.passed <=> (ErrorsOfChecks(call_args[i].artifacts) = {})

C19_Witness ==
    /\ Len(call_result) = 1
    /\ call_result[1].status = "ok"
    /\ ~call_result[1].value.passed
    /\ \A check \in {"traceability", "consistency", "completeness"} :
          \E e \in call_result[1].value.errors : e[1] = check

\* C20: the results of the audit always hold the entries three_nf and
\* performance_guidance; without the flags both are empty and the audit passes
\* as it would without them, and with both flags an ImplementationDesign
\* without data structures and without performance guidance fails the audit.
C20_OptInChecksAggregated ==
    \A i \in 1..Len(call_result) :
        LET args == call_args[i]
            audit == call_result[i].value
            design_lacks_both ==
                /\ "ImplementationDesign" \in DOMAIN args.artifacts
                /\ args.artifacts["ImplementationDesign"].data_structures = <<>>
                /\ args.artifacts["ImplementationDesign"].performance_guidance = <<>>
        IN  /\ call_result[i].status = "ok"
            /\ {"three_nf", "performance_guidance"} \subseteq DOMAIN audit.results
            /\ ~args.audit_config.given =>
                  /\ audit.results.three_nf = {}
                  /\ audit.results.performance_guidance = {}
                  /\ audit.passed <=> (ErrorsOfChecks(args.artifacts) = {})
            /\ (/\ args.audit_config.given
                /\ args.audit_config.require_3nf_data_structures
                /\ args.audit_config.require_performance_guidance
                /\ design_lacks_both) => ~audit.passed

\* The text of the artifact of a kind, nothing when the run has none.
AuditedText(args, kind) ==
    IF kind \in DOMAIN args.artifacts THEN args.artifacts[kind].agent_response ELSE {}

NoObjectiveError == "Requirements exist but no objective IDs were found for traceability."

NoTaskLinkError == "Requirements exist but no task-to-requirement trace links were found."

\* C21: with a requirement id in the spec artifact, the traceability check
\* reports an error when the problem brief has no objective id and an error
\* when the work breakdown has no requirement id; it reports nothing when
\* all three are there, and nothing when the spec has no requirement id.
C21_TraceabilityErrors ==
    \A i \in 1..Len(call_result) :
        call_result[i].status = "ok" =>
            LET errors == call_result[i].value.results.traceability
                requirements == "REQ-0001" \in AuditedText(call_args[i], "ImplementableSpec")
                objectives == "OBJ-0001" \in AuditedText(call_args[i], "ProblemBrief")
                task_links == "REQ-0001" \in AuditedText(call_args[i], "WorkBreakdown")
            IN  /\ (requirements /\ ~objectives) <=> (NoObjectiveError \in errors)
                /\ (requirements /\ ~task_links) <=> (NoTaskLinkError \in errors)
                /\ (requirements /\ objectives /\ task_links) => errors = {}
                /\ errors \subseteq {NoObjectiveError, NoTaskLinkError}
                /\ \A e \in errors : <<"traceability", "", e>> \in call_result[i].value.errors

C21_Witness ==
    /\ Len(call_result) = 1
    /\ call_result[1].status = "ok"
    /\ "REQ-0001" \in AuditedText(call_args[1], "ImplementableSpec")
    /\ "OBJ-0001" \in AuditedText(call_args[1], "ProblemBrief")
    /\ "TASK-0001" \in AuditedText(call_args[1], "WorkBreakdown")
    /\ call_result[1].value.results.traceability = {NoTaskLinkError}

\* The words that hold the marker when case is ignored.
WordsHolding(marker) ==
    CASE marker = "TBD" -> {"TBD", "tbd"}
      [] marker = "TODO" -> {"Todo", "mastodon"}
      [] OTHER -> {"to_be_defined"}

\* The words of the leaf strings of a content of the bounded shapes: a value
\* is a string, a number, a list [number, {k: string}] or a dict of two strings.
LeafWords(payload) ==
    UNION { LET value == payload[2][i][2]
                texts == CASE value[1] = "str" -> {value[2]}
                           [] value[1] = "list" -> {value[2][2][2][1][2][2]}
                           [] value[1] = "dict" -> {value[2][1][2][2], value[2][2][2][2]}
                           [] OTHER -> {}
            IN  UNION { { text[k] : k \in 1..Len(text) } : text \in texts }
          : i \in 1..Len(payload[2]) }

\* C22: the completeness check reports a marker exactly when some leaf string
\* at any depth holds it in any case, reports it once however often it
\* occurs, and looks at no key; a leaf string with "TBD" gives at least one
\* error and a content without markers gives none.
C22_CompletenessOnePerMarker ==
    \A i \in 1..Len(call_result) :
        LET errors == call_result[i]
            words == LeafWords(call_args[i])
        IN  /\ \A marker \in {"TBD", "TODO", "TO_BE_DEFINED"} :
                  (WordsHolding(marker) \cap words # {}) <=>
                      (\E k \in 1..Len(errors) : errors[k] = marker)
            /\ \A k, l \in 1..Len(errors) : errors[k] = errors[l] => k = l
            /\ "TBD" \in words => Len(errors) >= 1
            /\ (\A marker \in {"TBD", "TODO", "TO_BE_DEFINED"} :
                    WordsHolding(marker) \cap words = {}) => errors = <<>>

C22_Witness ==
    /\ Len(call_result) = 1
    /\ call_result[1] = <<"TBD", "TODO">>
    /\ Len(call_args[1][2]) = 2
    /\ call_args[1][2][1][1] = "TODO"
    /\ call_args[1][2][1][2] = ListOf(<<NumLeaf,
                                       DictOf(<< <<"k", StrLeaf(<<"tbd", "Todo", "TBD">>)>> >>)>>)
    /\ call_args[1][2][2][2] = StrLeaf(<<"TBD", "section">>)

\* The words of the serialized content of the artifact of a kind.
SerializedWords(contents, kind) == contents[kind].agent_response \cup contents[kind].keys

\* Whether the characters of the id occur in the serialized content.
IdInSerialized(stable_id, contents, kind) ==
    \/ stable_id \in SerializedWords(contents, kind)
    \/ (stable_id = "REQ-0001" /\ "REQ-00012" \in SerializedWords(contents, kind))

\* C23: the rows of the matrix are the requirement ids in the leaf strings of
\* the spec artifact, the columns the objective, decision, design, task and
\* test ids in the leaf strings of all artifacts; a cell is populated exactly
\* when its row and its column both occur in the serialized content of one
\* artifact, and the gaps are the rows without a cell, each with severity high.
C23_TraceabilityMatrix ==
    \A i \in 1..Len(call_result) :
        LET contents == call_args[i]
            matrix == call_result[i]
            spec_strings == IF "ImplementableSpec" \in DOMAIN contents
                            THEN contents["ImplementableSpec"].agent_response ELSE {}
            all_strings == UNION { contents[kind].agent_response : kind \in DOMAIN contents }
        IN  /\ matrix.rows = {"REQ-0001", "REQ-0002"} \cap spec_strings
            /\ matrix.columns =
                  {"OBJ-0001", "ADR-0001", "DES-0001", "TASK-0001", "TEST-0001"} \cap all_strings
            /\ matrix.cells \subseteq matrix.rows \X matrix.columns
            /\ \A row \in matrix.rows, column \in matrix.columns :
                  (<<row, column>> \in matrix.cells) <=>
                      (\E kind \in DOMAIN contents : /\ IdInSerialized(row, contents, kind)
                                                     /\ IdInSerialized(column, contents, kind))
            /\ \A row \in matrix.rows :
                  ([row_id |-> row, column_id |-> None, severity |-> "high"] \in matrix.gaps)
                      <=> (\A column \in matrix.columns : <<row, column>> \notin matrix.cells)
            /\ \A gap \in matrix.gaps : gap.row_id \in matrix.rows /\ gap.severity = "high"

C23_Witness ==
    /\ Len(call_result) = 1
    /\ call_result[1].rows = {"REQ-0001", "REQ-0002"}
    /\ <<"REQ-0001", "OBJ-0001">> \in call_result[1].cells
    /\ "TASK-0001" \in call_result[1].columns
    /\ <<"REQ-0001", "TASK-0001">> \notin call_result[1].cells
    /\ <<"REQ-0002", "TASK-0001">> \in call_result[1].cells
    /\ call_result[1].gaps = {}
    /\ DOMAIN call_args[1] = {"ImplementableSpec", "WorkBreakdown"}

HoldsRecordedInput(base_metadata) ==
    /\ "pipeline_input" \in DOMAIN base_metadata
    /\ "content" \in DOMAIN base_metadata.pipeline_input

CarriesCorrection(amendment) ==
    \/ ("amended_assumptions" \in DOMAIN amendment /\ amendment.amended_assumptions # <<>>)
    \/ ("amended_tradeoffs" \in DOMAIN amendment /\ amendment.amended_tradeoffs # <<>>)

\* C24: apply_amendment fails when the base metadata holds no recorded pipeline
\* input (a mapping with the input's content); otherwise it returns the base input
\* unchanged when the amendment has neither an assumption nor a tradeoff, and the
\* base input plus an amended_context of the amendment's assumptions, tradeoffs and
\* reason when it has one; the base metadata it was given is as it was.
C24_ApplyAmendment ==
    \A i \in 1..Len(call_result) :
        LET base_metadata == call_args[i].base_metadata
            amendment == call_args[i].amendment
            returned == call_result[i]
        IN  /\ returned.base_metadata = base_metadata
            /\ ~HoldsRecordedInput(base_metadata) => returned.status = "ValueError"
            /\ HoldsRecordedInput(base_metadata) /\ ~CarriesCorrection(amendment) =>
                  /\ returned.status = "ok"
                  /\ returned.pipeline_input = base_metadata.pipeline_input
            /\ HoldsRecordedInput(base_metadata) /\ CarriesCorrection(amendment) =>
                  /\ returned.status = "ok"
                  /\ DOMAIN returned.pipeline_input =
                        DOMAIN base_metadata.pipeline_input \cup {"amended_context"}
                  /\ \A key \in DOMAIN base_metadata.pipeline_input \ {"amended_context"} :
                        returned.pipeline_input[key] = base_metadata.pipeline_input[key]
                  /\ returned.pipeline_input.amended_context =
                        [amended_assumptions |->
                            IF "amended_assumptions" \in DOMAIN amendment
                            THEN amendment.amended_assumptions ELSE <<>>,
                         amended_tradeoffs |->
                            IF "amended_tradeoffs" \in DOMAIN amendment
                            THEN amendment.amended_tradeoffs ELSE <<>>,
                         reason |->
                            IF "reason" \in DOMAIN amendment THEN amendment.reason ELSE None]

C24_Witness ==
    /\ Len(call_result) = 1
    /\ HoldsRecordedInput(call_args[1].base_metadata)
    /\ call_args[1].base_metadata.pipeline_input = RecordedInput
    /\ call_args[1].amendment =
          [base_run_id |-> "run_1", amended_tradeoffs |-> <<"TO-0001">>, reason |-> "fix"]
    /\ call_result[1].status = "ok"
    /\ call_result[1].pipeline_input.amended_context.amended_tradeoffs = <<"TO-0001">>
    /\ call_result[1].pipeline_input.content = "x"

LastCallIsDerived == store_result.op = "run_derived_pipeline" /\ Len(call_args) = 1

BaseMetadataMissing(directory, base_run_id) ==
    MetadataFile \notin DOMAIN directory[base_run_id].files

DeclaresOtherBase(amendment_file, base_run_id) ==
    /\ amendment_file.present
    /\ "base_run_id" \in DOMAIN amendment_file.data
    /\ amendment_file.data.base_run_id # base_run_id

\* C25: a run_derived_pipeline call whose amendment declares another base run
\* than the one requested, or whose base run has no metadata, fails without
\* having generated a run id, created a run directory or called the orchestrator.
C25_DerivedRunValidatesFirst ==
    [][(store_result'.op = "run_derived_pipeline" /\ Len(call_args') = 1
        /\ (\/ DeclaresOtherBase(call_args'[1].amendment_file, call_args'[1].base_run_id)
            \/ BaseMetadataMissing(runs_directory, call_args'[1].base_run_id))) =>
           /\ store_result'.status \in {"ValueError", "FileNotFoundError"}
           /\ store_result'.run_id = NoRunId
           /\ issued' = issued
           /\ runs_directory' = runs_directory
           /\ \A k \in 1..Len(call_result'[1].calls) :
                 call_result'[1].calls[k] \notin
                     {"generate_run_id", "initialize_run", "execute_pipeline"}
           /\ ~call_result'[1].orchestrator_ran]_vars

C25_Witness ==
    /\ LastCallIsDerived
    /\ store_result.status = "ValueError"
    /\ call_args[1].base_run_id = BaseRunId
    /\ DeclaresOtherBase(call_args[1].amendment_file, BaseRunId)
    /\ ~BaseMetadataMissing(runs_directory, BaseRunId)
    /\ HoldsRecordedInput(runs_directory[BaseRunId].files[MetadataFile])
    /\ Len(issued) = 1
    /\ \A run_id \in RunIds : runs_directory[run_id].exists => run_id \in {BaseRunId, issued[1]}

ValidReplay(directory, args) ==
    /\ ~BaseMetadataMissing(directory, args.base_run_id)
    /\ HoldsRecordedInput(directory[args.base_run_id].files[MetadataFile])
    /\ args.amendment_file.present
    /\ "base_run_id" \in DOMAIN args.amendment_file.data
    /\ args.amendment_file.data.base_run_id = args.base_run_id

HasReplayMetadata(directory, run_id) ==
    /\ MetadataFile \in DOMAIN directory[run_id].files
    /\ "pipeline_input" \in DOMAIN directory[run_id].files[MetadataFile]

\* C26: a derived run of a base run with a recorded input and a matching amendment,
\* on a persisting store, runs the orchestrator under a new run id and leaves the
\* base run id in the new run's metadata and in its artifacts' provenance.
C26_DerivedRunRecordsBase ==
    (LastCallIsDerived /\ create_artifacts /\ ValidReplay(runs_directory, call_args[1])) =>
        /\ store_result.status = "ok"
        /\ store_result.run_id # store_result.base_run_id
        /\ call_result[1].orchestrator_ran
        /\ MetadataFile \in DOMAIN runs_directory[store_result.run_id].files
        /\ runs_directory[store_result.run_id].files[MetadataFile].base_run_id
              = store_result.base_run_id
        /\ call_result[1].artifact_base_run_id = store_result.base_run_id

\* C27: two replays of the same base run with the same amendment have two
\* different run ids, both other than the base run id, and metadata files that
\* hold the same pipeline_input.
C27_ReplayDeterministic ==
    \A i, j \in 1..Len(written) :
        (i < j /\ written[i].base_run_id = written[j].base_run_id
               /\ written[i].amendment_file = written[j].amendment_file) =>
            /\ written[i].run_id # written[j].run_id
            /\ written[i].run_id # written[i].base_run_id
            /\ written[j].run_id # written[j].base_run_id
            /\ HasReplayMetadata(runs_directory, written[i].run_id)
            /\ HasReplayMetadata(runs_directory, written[j].run_id)
            /\ runs_directory[written[i].run_id].files[MetadataFile].pipeline_input
                  = runs_directory[written[j].run_id].files[MetadataFile].pipeline_input

\* What C28 says apart from the number of attempts: a return of func ends the call
\* with no further attempt, an error that is not a rate-limit error is raised to
\* the caller at once, a rate-limit error is followed by another attempt while
\* attempts remain, and the error raised to the caller is the last one func raised.
RetryDiscipline(state, max_retries) ==
    /\ state.calls = Len(state.errors) + (IF state.status = "returned" THEN 1 ELSE 0)
    /\ (state.status = "returned" /\ state.errors = <<>>) => state.calls = 1
    /\ \A k \in 1..Len(state.errors) :
          ~is_rate_limit_error(state.errors[k]) =>
              /\ k = Len(state.errors)
              /\ state.status = "raised"
              /\ state.surfaced = state.errors[k]
    /\ (Len(state.errors) = 1 /\ ~is_rate_limit_error(state.errors[1])) => state.calls = 1
    /\ state.status = "raised" =>
          /\ state.errors # <<>>
          /\ state.surfaced = state.errors[Len(state.errors)]
          /\ is_rate_limit_error(state.surfaced) => state.calls >= max_retries

\* C28 as stated: with the above, no more than max_retries attempts are made.
C28_RetryAtMostMaxRetries ==
    /\ RetryDiscipline(call_result[1], call_args[1].max_retries)
    /\ call_result[1].calls <= call_args[1].max_retries

\* C28, amended: func is called once when it returns or raises an error that is not
\* a rate-limit error at the first attempt; on rate-limit errors the call is
\* retried, no more than max_retries attempts are made when max_retries is at
\* least 1 and exactly one when it is below 1, and the last error is raised.
C28_RetryAtMostMaxAttempts ==
    /\ RetryDiscipline(call_result[1], call_args[1].max_retries)
    /\ call_result[1].calls <= Max(1, call_args[1].max_retries)
    /\ call_args[1].max_retries < 1 => call_result[1].calls <= 1

C28_Witness ==
    /\ call_args[1].max_retries = 3
    /\ call_result[1].status = "raised"
    /\ call_result[1].calls = 3
    /\ is_rate_limit_error(call_result[1].surfaced)
    /\ call_result[1].errors[1] # call_result[1].errors[3]
    /\ call_result[1].errors[2] # call_result[1].errors[3]

\* The names of the templates a step uses, as the three cases give them.
TemplatesUsed(args) ==
    CASE args.prompts_config.kind = "none" -> <<>>
      [] args.prompts_config.kind = "str" -> <<"unnamed_template">>
      [] args.prompts_config.kind = "dict" ->
            get_template_names(args.agent_config,
                               [k \in 1..Len(args.prompts_config.named) |->
                                   args.prompts_config.named[k][1]])

\* The step made one agent invocation, and it was given every template used.
OneInvocationWithAllTemplates(args, executed) ==
    /\ Len(executed.invocations) = 1
    /\ Len(executed.invocations[1]) = Len(TemplatesUsed(args))
    /\ \A k \in 1..Len(executed.invocations[1]) :
          executed.invocations[1][k] =
              IF args.prompts_config.kind = "str" THEN args.prompts_config.text
              ELSE TemplateContent(TemplatesUsed(args)[k])

\* C29: an executed step made exactly one agent invocation, with every template it
\* uses, and its prompt_templates_used names those templates.
C29_SingleInvocationRecordsTemplates ==
    \A i \in 1..Len(call_result) :
        call_result[i].status = "ok" =>
            /\ OneInvocationWithAllTemplates(call_args[i], call_result[i])
            /\ call_result[i].step.metadata.prompt_templates_used = TemplatesUsed(call_args[i])

\* The part of C29 that holds: one invocation with all templates, named in the
\* metadata _execute_agent returns; a step whose template is missing invokes nothing.
C29_SingleInvocation ==
    \A i \in 1..Len(call_result) :
        /\ call_result[i].status = "ok" =>
              /\ OneInvocationWithAllTemplates(call_args[i], call_result[i])
              /\ call_result[i].agent_output.metadata.prompt_templates_used
                    = TemplatesUsed(call_args[i])
        /\ call_result[i].status # "ok" => call_result[i].invocations = <<>>

\* The original pipeline input for 'pipeline_input', the earlier step's output for
\* a step name.
ValueOfSource(args, src) ==
    IF src = "pipeline_input" THEN args.pipeline_input ELSE args.agents[src]

\* C30: input resolution gives a step with one declared source {input: the value
\* of that source} and a step with several sources {input: {source name: value}},
\* the value of 'pipeline_input' being the original pipeline input and the value
\* of a step name that step's output.
C30_InputResolutionShapes ==
    \A i \in 1..Len(call_result) :
        LET args == call_args[i]
            inputs == args.agent_config.inputs
        IN  ~call_result[i].error =>
               /\ DOMAIN call_result[i] = {"error", "input"}
               /\ Len(inputs) = 1 => call_result[i].input = ValueOfSource(args, inputs[1])
               /\ Len(inputs) > 1 =>
                     /\ DOMAIN call_result[i].input = { inputs[k] : k \in 1..Len(inputs) }
                     /\ \A k \in 1..Len(inputs) :
                           call_result[i].input[inputs[k]] = ValueOfSource(args, inputs[k])

C30_Witness ==
    /\ Len(call_result) = 1
    /\ ~call_result[1].error
    /\ call_args[1].agent_config.inputs = <<"pipeline_input", RoleOrder[1]>>
    /\ call_args[1].pipeline_input.content = {"TBD"}
    /\ DOMAIN call_result[1].input = {"pipeline_input", RoleOrder[1]}
    /\ call_result[1].input["pipeline_input"] = call_args[1].pipeline_input
    /\ call_result[1].input[RoleOrder[1]] = call_args[1].agents[RoleOrder[1]]

(***************************************************************************)
(* The order of the events of a successful run.                            *)
(***************************************************************************)
IsStepProduced(event) == event.event_type = "artifact_produced" /\ event.actor # "orchestrator"

StepProducedEvents(log) == SelectSeq(log, IsStepProduced)

NoEmitFailed(tr) == \A i \in 1..Len(tr) : ~IsFailedEmit(tr[i])

\* The log opens with "Pipeline execution started" and closes with "Pipeline
\* execution completed", both orchestrator_decision_made.
StartedFirstCompletedLast(log) ==
    /\ Len(log) >= 2
    /\ log[1].event_type = "orchestrator_decision_made"
    /\ log[1].summary = "Pipeline execution started"
    /\ log[Len(log)].event_type = "orchestrator_decision_made"
    /\ log[Len(log)].summary = "Pipeline execution completed"

\* One artifact_produced event per configured step, in step order, each naming
\* the artifact id of its step first.
StepEventsInStepOrder(log) ==
    LET produced == StepProducedEvents(log)
    IN  /\ Len(produced) = Len(pipeline_config)
        /\ \A j \in 1..Len(produced) :
             /\ produced[j].actor = pipeline_config[j].name
             /\ produced[j].references[1] = AGENT_ARTIFACT_MAP(pipeline_config[j].name)
             /\ produced[j].references[2] = artifacts[produced[j].references[1]].content_hash

\* Every artifact_produced of a step comes right after the write of that step's artifact.
ProducedAfterWrite(tr) ==
    \A i \in 1..Len(tr) :
        (tr[i].op = "emit" /\ tr[i].what = "artifact_produced" /\ tr[i].who # "orchestrator") =>
            /\ i > 1
            /\ tr[i - 1] = Op("write_artifact", tr[i].who, AGENT_ARTIFACT_MAP(tr[i].who), "", TRUE)

CanaryInputs == [content : {{}, {"unique_canary_input_xyz123"}, {"TBD"},
                            {"TBD", "unique_canary_input_xyz123"}},
                 size : {9, 200}]

InitCanary ==
    /\ pipeline_config \in PipelineConfigs
    /\ agent_configs = AllAgentNames
    /\ audit_config \in AuditConfigs
    /\ input_data \in CanaryInputs
    /\ store_mode \in {"none", "disabled", "enabled"}
    /\ has_log = TRUE
    /\ faults_enabled = FALSE
    /\ baseline = NoBaseline
    /\ FreshRun
    /\ FreshLog
    /\ FreshStore

\* The first run is over: its history is kept and the call is made again on
\* another input.
RestartOnOtherInput ==
    /\ pc = "done"
    /\ ~baseline.taken
    /\ baseline' = [taken |-> TRUE,
                    script |-> script,
                    trace |-> trace,
                    artifacts |-> artifacts,
                    audit_results_file |-> audit_results_file,
                    outcome |-> outcome,
                    result |-> result]
    /\ input_data' \in CanaryInputs \ {input_data}
    /\ pc' = "new"
    /\ step_index' = 0
    /\ pipeline_agents' = EmptyMap
    /\ artifacts_manifest' = <<>>
    /\ sufficiency_assessment' = NoAssessment
    /\ artifacts' = EmptyMap
    /\ audit_results_file' = NoAuditFile
    /\ event_log' = <<>>
    /\ uuid_counter' = 0
    /\ trace' = <<>>
    /\ outcome' = "running"
    /\ result' = NoResult
    /\ script' = <<>>
    /\ UNCHANGED <<pipeline_config, agent_configs, audit_config, store_mode, has_log,
                   faults_enabled, log_vars, store_vars, call_vars>>

NextCanary == Next \/ RestartOnOtherInput

SpecCanary == InitCanary /\ [][NextCanary]_vars

\* Actor, event type and summary of every event of a log.
EventShape(log) == [j \in 1..Len(log) |-> <<log[j].actor, log[j].event_type, log[j].summary>>]

\* The same of the emits a history records.
EmitShape(tr) ==
    LET emits == SelectSeq(tr, IsOkEmit)
    IN  [j \in 1..Len(emits) |-> <<emits[j].who, emits[j].what, emits[j].note>>]

\* The text fields of an event. The second reference of an artifact_produced
\* event is a SHA-256 hex digest, not a text.
EventTexts(event) ==
    {event.timestamp, event.run_id, event.actor, event.event_type, event.content_ref,
     event.summary}
    \cup (IF Len(event.references) >= 1 THEN {event.references[1]} ELSE {})

\* Both runs ended with the same gate and audit outcomes.
SameGateAndAuditOutcomes ==
    /\ baseline.taken
    /\ pc = "done"
    /\ outcome = baseline.outcome
    /\ result.execution_successful = baseline.result.execution_successful
    /\ audit_results_file.exists = baseline.audit_results_file.exists
    /\ (audit_results_file.exists =>
            audit_results_file.payload.deterministic.passed
                = baseline.audit_results_file.payload.deterministic.passed)

\* C32: no field of a collaboration event holds text of the pipeline input,
\* and two runs that differ in the input only and end with the same gate and
\* audit outcomes emit events with the same actors, event types and summaries.
C32_EventsCarryNoInputContent ==
    /\ \A j \in 1..Len(event_log) : EventTexts(event_log[j]) \cap input_data.content = {}
    /\ (SameGateAndAuditOutcomes => EventShape(event_log) = EmitShape(baseline.trace))

C32_Witness ==
    /\ SameGateAndAuditOutcomes
    /\ ReturnedSuccess
    /\ store_mode = "enabled"
    /\ "unique_canary_input_xyz123" \in input_data.content
    /\ Len(event_log) >= 5
    /\ EventShape(event_log) = EmitShape(baseline.trace)

(***************************************************************************)
(* The content-model registry (agentic/artifacts/registry.py) looked up    *)
(* for a few artifact kinds.                                               *)
(***************************************************************************)
\* The kinds that are keys of the ARTIFACT_CONTENT_MODELS dict.
RegisteredKinds ==
    {"ProblemBrief", "BusinessRequirements", "NonFunctionalRequirements", "C4Model",
     "ArchitectureDecisionRecordSet", "TechStackRecommendation", "AssumptionLedger",
     "TradeoffRegister", "InfoSufficiencyAssessment", "TraceabilityMatrix",
     "ImplementableSpec", "ImplementationDesign", "WorkBreakdown", "DesignReview",
     "CodeReview", "ThreatModel", "PrivacyChecklist", "TestPlan", "AcceptanceTests"}

\* Each registered kind maps to the class <kind>Content.
ARTIFACT_CONTENT_MODELS == [kind \in RegisteredKinds |-> <<kind, "Content">>]

\* get_content_model: the subscript raises KeyError for a kind that is no key.
get_content_model(artifact_type) ==
    IF artifact_type \in DOMAIN ARTIFACT_CONTENT_MODELS
    THEN [raised |-> None, model |-> ARTIFACT_CONTENT_MODELS[artifact_type]]
    ELSE [raised |-> "KeyError", model |-> <<None, None>>]

InitRegistry ==
    /\ AtRest
    /\ call_args \in [1..MaxLookups -> ArtifactType]
    /\ call_result = <<>>

GetContentModel ==
    /\ Len(call_result) < Len(call_args)
    /\ call_result' = Append(call_result,
                             get_content_model(call_args[Len(call_result) + 1]))
    /\ UNCHANGED <<call_args, rest_vars>>

NextRegistry == GetContentModel

SpecRegistry == InitRegistry /\ [][NextRegistry]_vars

\* C33: the kinds with a registered content model are exactly the members of
\* ArtifactType, and get_content_model succeeds for every kind it is asked for.
C33_RegistryCoversEveryKind ==
    /\ DOMAIN ARTIFACT_CONTENT_MODELS = ArtifactType
    /\ \A j \in 1..Len(call_result) :
         /\ call_result[j].raised = None
         /\ call_result[j].model = <<call_args[j], "Content">>

\* A lookup of the kind that has no registered model has raised KeyError.
C33_LookupRaised ==
    \E j \in 1..Len(call_result) :
        call_args[j] = "Amendment" /\ call_result[j].raised = "KeyError"

(***************************************************************************)
(* execute_pipeline from the call to its end, on any configuration root:   *)
(* agentic.yaml may be missing or invalid. The call runs on one thread, so *)
(* a step that can be taken is taken.                                      *)
(***************************************************************************)
InitOutcome ==
    /\ pipeline_config \in PipelineConfigs
    /\ agent_configs \in {AllAgentNames, AllAgentNames \ {RoleOrder[1]}}
    /\ audit_config \in AuditConfigs \cup {NoAgenticConfig}
    /\ input_data \in PipelineInputs
    /\ store_mode \in {"none", "disabled", "enabled"}
    /\ has_log \in BOOLEAN
    /\ faults_enabled = FALSE
    /\ baseline = NoBaseline
    /\ FreshRun
    /\ FreshLog
    /\ FreshStore

SpecOutcome == InitOutcome /\ [][Next]_vars /\ WF_vars(Next)

\* execute_pipeline was called: the constructor did not reject the configuration.
ExecuteCalled == pc # "new" /\ outcome # "ConfigRejected"

\* The call is over in one of the three outcomes: blocked with no step
\* executed, completed, or PipelineError.
OneOfThreeOutcomes ==
    \/ (ReturnedBlocked /\ NumInvoked(trace) = 0 /\ DOMAIN result.agents = {})
    \/ ReturnedSuccess
    \/ (pc = "done" /\ outcome = "PipelineError")

\* Until the call is over it has no outcome.
NoIntermediateOutcome == pc # "done" => outcome = "running"

\* C34: every execute_pipeline call terminates, and when it has it is in
\* exactly one of three outcomes: blocked before starting (returned
\* execution_successful = false, no step executed), completed (returned
\* execution_successful = true) or failed fast (PipelineError); no other
\* exception leaves the call and there is no outcome in between.
C34_TerminatesInOneOfThreeOutcomes ==
    /\ [](NoIntermediateOutcome /\ (pc = "done" /\ ExecuteCalled => OneOfThreeOutcomes))
    /\ <>(pc = "done")

\* The same for the calls whose audit configuration loads.
C34_ThreeOutcomesWhenConfigured ==
    /\ [](NoIntermediateOutcome
          /\ (pc = "done" /\ ExecuteCalled /\ ~get_audit_config_raises(audit_config)
                => OneOfThreeOutcomes))
    /\ <>(pc = "done")

\* A call ended with the loader's exception.
C34_OtherExceptionEscaped ==
    /\ pc = "done"
    /\ ExecuteCalled
    /\ outcome = "ConfigValidationError"

(***************************************************************************)
(* Runs of pipelines whose steps declare one or two input sources, any of  *)
(* which may name no step, a later step, or a step that has run.           *)
(***************************************************************************)
\* The `inputs` lists a step at position k may declare here.
InvalidSourceInputsOf(k) ==
    {<<"pipeline_input">>, <<"nonexistent_agent">>, <<RoleOrder[k + 1]>>,
     <<"pipeline_input", "nonexistent_agent">>, <<"pipeline_input", RoleOrder[k + 1]>>}
    \cup (IF k > 1 THEN {<<RoleOrder[k - 1]>>, <<RoleOrder[k - 1], "nonexistent_agent">>}
          ELSE {})

InvalidSourceConfigs ==
    UNION { { config \in [1..n -> [name : {RoleOrder[k] : k \in 1..n},
                                   inputs : UNION { InvalidSourceInputsOf(k) : k \in 1..n }]] :
                \A k \in 1..n : /\ config[k].name = RoleOrder[k]
                                /\ config[k].inputs \in InvalidSourceInputsOf(k) } :
            n \in 1..MaxSteps }

InitInvalidSource ==
    /\ pipeline_config \in InvalidSourceConfigs
    /\ agent_configs = AllAgentNames
    /\ audit_config \in AuditConfigs
    /\ input_data \in PipelineInputs
    /\ store_mode \in {"none", "enabled"}
    /\ has_log \in BOOLEAN
    /\ faults_enabled = FALSE
    /\ baseline = NoBaseline
    /\ FreshRun
    /\ FreshLog
    /\ FreshStore

SpecInvalidSource == InitInvalidSource /\ [][Next]_vars

\* A declared source of the step about to run is neither 'pipeline_input' nor
\* the name of a step that has produced output in this run.
DeclaresInvalidSource ==
    /\ pc = "loop"
    /\ \E k \in 1..Len(pipeline_config[step_index].inputs) :
         /\ pipeline_config[step_index].inputs[k] # "pipeline_input"
         /\ pipeline_config[step_index].inputs[k] \notin DOMAIN pipeline_agents

\* The last entry of the history is a PipelineError raised for step j that
\* names one of the step's declared sources, one that is not valid.
RaisedNamingInvalidSource(tr, j) ==
    /\ Len(tr) >= 1
    /\ tr[Len(tr)].op = "raise"
    /\ tr[Len(tr)].what = "PipelineError"
    /\ tr[Len(tr)].who = pipeline_config[j].name
    /\ \E k \in 1..Len(pipeline_config[j].inputs) :
         tr[Len(tr)].note = pipeline_config[j].inputs[k]
    /\ tr[Len(tr)].note # "pipeline_input"
    /\ tr[Len(tr)].note \notin DOMAIN pipeline_agents

\* C35: when a declared input source of the step about to run is neither
\* 'pipeline_input' nor a step that has already produced output, the step
\* ends the run in a PipelineError that names the invalid source, and the
\* step's agent is not invoked.
C35_InvalidSourceRaises ==
    [][ DeclaresInvalidSource =>
            /\ outcome' = "PipelineError"
            /\ pc' = "done"
            /\ RaisedNamingInvalidSource(trace', step_index)
            /\ Invocations(trace') = Invocations(trace)
            /\ pipeline_agents' = pipeline_agents ]_vars

C35_Witness ==
    /\ pc = "done"
    /\ outcome = "PipelineError"
    /\ step_index = 2
    /\ NumInvoked(trace) = 1
    /\ pipeline_config[2].inputs = <<RoleOrder[1], "nonexistent_agent">>
    /\ RaisedNamingInvalidSource(trace, 2)
    /\ trace[Len(trace)].note = "nonexistent_agent"

(***************************************************************************)
(* check_3nf_data_structures (agentic/audits/checks.py) on its own.  A     *)
(* dict is the set of its keys and the values the function reads; a value  *)
(* that is missing is None.                                                *)
(***************************************************************************)
\* One element of data_structures: an object with the two fields the check
\* reads, or something that is not an object.
DataStructureEntries ==
    [is_object : {TRUE},
     normalization_level : {None, "", "3NF", "3nf", "2NF"},
     denormalization_rationale : {None, "", "   ", "Read-heavy cache table"}]
    \cup {[is_object |-> FALSE, normalization_level |-> None,
           denormalization_rationale |-> None]}

DataStructureLists ==
    UNION { [1..n -> DataStructureEntries] : n \in 0..MaxEntries }

\* ImplementationDesign contents: {}, one without data_structures, one whose
\* data_structures is a string, and the ones whose data_structures is a list.
ImplementationDesigns ==
    {[keys |-> {}, is_list |-> TRUE, data_structures |-> <<>>],
     [keys |-> {"modules"}, is_list |-> TRUE, data_structures |-> <<>>],
     [keys |-> {"data_structures"}, is_list |-> FALSE, data_structures |-> <<>>]}
    \cup [keys : {{"data_structures"}, {"modules", "data_structures"}},
          is_list : {TRUE},
          data_structures : DataStructureLists]

\* The artifacts argument: with an ImplementationDesign or with another kind only.
ThreeNFArtifacts ==
    {[kind \in {"BusinessRequirements"} |-> [keys |-> {}, is_list |-> TRUE,
                                             data_structures |-> <<>>]]}
    \cup { [kind \in {"ImplementationDesign"} |-> design] : design \in ImplementationDesigns }

\* `not value` for a string or None.
falsy(value) == value = None \/ value = ""

\* `not str(value).strip()` for a string.
blank_when_stripped(value) == value = "" \/ value = "   "

\* The error appended for entry i (counted from 0), None for no error.
entry_error(entry, i) ==
    IF ~entry.is_object THEN <<"must be an object", i>>
    ELSE IF falsy(entry.normalization_level) THEN <<"missing normalization_level", i>>
    ELSE IF upper(entry.normalization_level) # "3NF"
            /\ (falsy(entry.denormalization_rationale)
                \/ blank_when_stripped(entry.denormalization_rationale))
    THEN <<"missing denormalization_rationale", i>>
    ELSE <<None, i>>

IsEntryError(error) == error[1] # None

\* A check that never asks for a rationale.
check_3nf_data_structures_levels_only(contents, require_3nf) ==
    LET impl_design == dict_get(contents, "ImplementationDesign",
                                [keys |-> {}, is_list |-> TRUE, data_structures |-> <<>>])
        data_structures == IF "data_structures" \in impl_design.keys
                           THEN impl_design.data_structures ELSE <<>>
    IN  IF ~require_3nf THEN <<>>
        ELSE IF impl_design.keys = {} THEN <<>>
        ELSE IF "data_structures" \in impl_design.keys /\ ~impl_design.is_list
        THEN << <<"must be a list", 0>> >>
        ELSE IF Len(data_structures) = 0
        THEN << <<"at least one data_structures entry", 0>> >>
        ELSE SelectSeq([i \in 1..Len(data_structures) |->
                           IF data_structures[i].is_object
                              /\ falsy(data_structures[i].normalization_level)
                           THEN <<"missing normalization_level", i - 1>>
                           ELSE <<None, i - 1>>],
                       IsEntryError)

\* check_3nf_data_structures: the list of errors, each a message and the
\* index it names.
check_3nf_data_structures(contents, require_3nf) ==
    LET impl_design == dict_get(contents, "ImplementationDesign",
                                [keys |-> {}, is_list |-> TRUE, data_structures |-> <<>>])
        data_structures == IF "data_structures" \in impl_design.keys
                           THEN impl_design.data_structures ELSE <<>>
    IN  IF ~require_3nf THEN <<>>
        ELSE IF impl_design.keys = {} THEN <<>>
        ELSE IF "data_structures" \in impl_design.keys /\ ~impl_design.is_list
        THEN << <<"must be a list", 0>> >>
        ELSE IF Len(data_structures) = 0
        THEN << <<"at least one data_structures entry", 0>> >>
        ELSE SelectSeq([i \in 1..Len(data_structures) |->
                           entry_error(data_structures[i], i - 1)],
                       IsEntryError)

InitThreeNF ==
    /\ AtRest
    /\ \E audited \in ThreeNFArtifacts, require_3nf \in BOOLEAN :
          call_args = << [artifacts |-> audited, require_3nf |-> require_3nf] >>
    /\ call_result = <<>>

Check3NF ==
    /\ Len(call_result) < Len(call_args)
    /\ LET args == call_args[Len(call_result) + 1]
       IN  call_result' = Append(call_result,
                                 check_3nf_data_structures(args.artifacts, args.require_3nf))
    /\ UNCHANGED <<call_args, rest_vars>>

NextThreeNF == Check3NF

SpecThreeNF == InitThreeNF /\ [][NextThreeNF]_vars

\* The entry states a normalization level.
StatesLevel(entry) ==
    entry.is_object /\ entry.normalization_level \notin {None, ""}

\* The stated level is the third normal form, in either spelling.
AtThirdNormalForm(entry) == entry.normalization_level \in {"3NF", "3nf"}

\* Some error of the list names entry i (counted from 0).
ErrorNames(errors, i) == \E e \in 1..Len(errors) : errors[e][2] = i

\* The design passed in has content and a data_structures list.
HasDataStructuresList(contents) ==
    /\ "ImplementationDesign" \in DOMAIN contents
    /\ "data_structures" \in contents["ImplementationDesign"].keys
    /\ contents["ImplementationDesign"].is_list

\* C36: check_3nf_data_structures returns no error when the flag is off or
\* there is no ImplementationDesign; with the flag on, an empty data_structures
\* list is an error, an entry that states no normalization_level is an error,
\* an entry whose level is not 3NF and that has no denormalization_rationale
\* or an empty one is an error, and an entry is in error only for a missing
\* level or for a level other than 3NF with a rationale that is missing, empty
\* or blank.
C36_ThreeNFCheck ==
    \A c \in 1..Len(call_result) :
        LET args == call_args[c]
            errors == call_result[c]
            ds == args.artifacts["ImplementationDesign"].data_structures
        IN  /\ (~args.require_3nf \/ "ImplementationDesign" \notin DOMAIN args.artifacts)
                  => errors = <<>>
            /\ (args.require_3nf /\ HasDataStructuresList(args.artifacts)) =>
                  /\ ds = <<>> => errors # <<>>
                  /\ \A i \in 1..Len(ds) :
                       /\ ~StatesLevel(ds[i]) => ErrorNames(errors, i - 1)
                       /\ (StatesLevel(ds[i]) /\ ~AtThirdNormalForm(ds[i])
                           /\ ds[i].denormalization_rationale \in {None, ""})
                             => ErrorNames(errors, i - 1)
                       /\ ErrorNames(errors, i - 1) =>
                             \/ ~StatesLevel(ds[i])
                             \/ (~AtThirdNormalForm(ds[i])
                                 /\ ds[i].denormalization_rationale \in {None, "", "   "})

C36_Witness ==
    /\ Len(call_result) = 1
    /\ call_args[1].require_3nf
    /\ HasDataStructuresList(call_args[1].artifacts)
    /\ Len(call_args[1].artifacts["ImplementationDesign"].data_structures) = 2
    /\ call_args[1].artifacts["ImplementationDesign"].data_structures[1].normalization_level = "3NF"
    /\ call_args[1].artifacts["ImplementationDesign"].data_structures[2].normalization_level = "2NF"
    /\ call_args[1].artifacts["ImplementationDesign"].data_structures[2].denormalization_rationale = None
    /\ call_result[1] = << <<"missing denormalization_rationale", 1>> >>

\* Every configured step was invoked exactly once, in the configured order.
EveryStepExecutedOnceInOrder ==
    /\ NumInvoked(trace) = Len(pipeline_config)
    /\ \A j \in 1..Len(pipeline_config) : Invocations(trace)[j].who = pipeline_config[j].name
    /\ DOMAIN result.agents = StepNames(pipeline_config)

\* The audits over the artifacts in the run directory pass the gate.
PersistedArtifactsPassAudits ==
    LET contents == collect_artifact_contents(artifacts)
    IN  /\ run_deterministic_audit(contents).passed
        /\ run_deterministic_audit(contents).errors = {}
        /\ run_semantic_audit(contents, None).confidence_score
              >= audit_config.min_confidence_to_proceed

\* C37: execute_pipeline returns execution_successful = true only if the
\* sufficiency confidence met the threshold, every configured step was executed
\* exactly once in order and, when an artifact store was supplied, the
\* deterministic audit over the persisted artifacts passed and the semantic
\* confidence met the threshold.
C37_SuccessOnlyAfterEveryGate ==
    ReturnedSuccess =>
        /\ ExpectedAssessment.confidence_score >= audit_config.min_confidence_to_proceed
        /\ sufficiency_assessment = ExpectedAssessment
        /\ EveryStepExecutedOnceInOrder
        /\ (store_mode # "none" => PersistedArtifactsPassAudits)
        /\ (store_mode = "enabled" =>
                /\ audit_results_file.exists
                /\ audit_results_file.payload.deterministic.passed)

C37_Witness ==
    /\ ReturnedSuccess
    /\ store_mode = "enabled"
    /\ Len(pipeline_config) = 2
    /\ EveryStepExecutedOnceInOrder
    /\ DOMAIN artifacts = {"InfoSufficiencyAssessment", "ProblemBrief", "ImplementableSpec",
                           "TraceabilityMatrix"}
    /\ PersistedArtifactsPassAudits

\* The file a manifest entry names is in the run directory with the entry's hash.
EntryMatchesStore(entry) ==
    /\ entry.file[1] = "artifacts"
    /\ entry.file[2] \in DOMAIN artifacts
    /\ entry.file = ArtifactPath(artifacts[entry.file[2]])
    /\ artifacts[entry.file[2]].content_hash = entry.content_hash

NoFileListedTwice(manifest) ==
    \A i, j \in 1..Len(manifest) : i # j => manifest[i].file # manifest[j].file

\* C38: when execute_pipeline returns, blocked or successful, from a run with
\* a persisting store, every entry of the returned manifest names a file that
\* is in the run directory with the content_hash the entry gives, and no two
\* entries name the same file.
C38_ManifestConsistentWithStore ==
    (pc = "done" /\ outcome = "returned" /\ store_mode = "enabled") =>
        /\ result.artifacts_manifest = artifacts_manifest
        /\ \A j \in 1..Len(result.artifacts_manifest) :
               EntryMatchesStore(result.artifacts_manifest[j])
        /\ NoFileListedTwice(result.artifacts_manifest)

\* A successful run whose manifest lists one file twice, the first time with a
\* hash the file no longer has.
C38_StaleManifestEntry ==
    /\ ReturnedSuccess
    /\ store_mode = "enabled"
    /\ ~NoFileListedTwice(result.artifacts_manifest)
    /\ \E j \in 1..Len(result.artifacts_manifest) :
           ~EntryMatchesStore(result.artifacts_manifest[j])

\* The input holds a configured insufficiency marker that check_completeness
\* looks for as well, and its sufficiency confidence still meets the threshold.
MarkerInputPassesGate ==
    /\ \E marker \in audit_config.insufficient_markers \cap {"TBD", "TODO"} :
           marker \in input_data.content
    /\ ExpectedAssessment.confidence_score >= audit_config.min_confidence_to_proceed

\* The audit over the run directory reports a marker the assessment artifact lists.
AuditFailsOnAssessment ==
    LET audit == run_deterministic_audit(collect_artifact_contents(artifacts))
    IN  /\ ~audit.passed
        /\ \E marker \in input_data.content \cap {"TBD", "TODO"} :
             /\ <<"InfoSufficiencyAssessment", marker>> \in audit.results.completeness
             /\ <<"completeness", "InfoSufficiencyAssessment", marker>> \in audit.errors

\* C39 as stated: for such an input and a run with an artifact store attached,
\* the post-execution deterministic audit fails on the InfoSufficiencyAssessment
\* artifact and the run never returns execution_successful = true.
C39_MarkerInputNeverSucceeds ==
    (MarkerInputPassesGate /\ store_mode # "none") =>
        /\ ~ReturnedSuccess
        /\ (pc = "audit" => AuditFailsOnAssessment)

\* C39 amended: the same for a run whose store persists artifacts.
C39_MarkerInputNeverSucceedsWhenPersisted ==
    (MarkerInputPassesGate /\ store_mode = "enabled") =>
        /\ ~ReturnedSuccess
        /\ (pc = "audit" => AuditFailsOnAssessment)
        /\ (pc \in {"loop", "traceability", "audit", "finish"} =>
                "TBD" \in walk_strings(artifacts["InfoSufficiencyAssessment"].content))

\* The run ended on the failed audit although no agent output holds a marker.
C39_Witness ==
    /\ MarkerInputPassesGate
    /\ store_mode = "enabled"
    /\ pc = "done"
    /\ outcome = "PipelineError"
    /\ NumInvoked(trace) = Len(pipeline_config)
    /\ \A name \in DOMAIN pipeline_agents : pipeline_agents[name].agent_response = {}
    /\ audit_results_file.exists
    /\ audit_results_file.payload.deterministic.errors
          = {<<"completeness", "InfoSufficiencyAssessment", "TBD">>}

====
